---- MODULE Spec2Model ----
(***************************************************************************)
(* Model of d3-meld's replica-exchange worker loop                         *)
(* (src/patches/worker.py, WorkerReplicaExchangeRunner.run) and of the     *)
(* multi-GPU ensemble orchestrator (src/multi_gpu_multiplex.py, main).     *)
(*                                                                         *)
(* Three specifications share the variables:                               *)
(*   SpecWorker  one worker running run() against an arbitrary             *)
(*               communicator peer (what a mock communicator may return);  *)
(*   SpecGroup   NumWorkers workers running run() against one leader;      *)
(*   SpecOrch    the orchestrator's main() with its child processes.       *)
(***************************************************************************)
EXTENDS Integers, Sequences, FiniteSets, TLC

(***************************************************************************)
(* Bounds of the model.                                                    *)
(***************************************************************************)
NumWorkers == 2      \* workers of a group (SpecGroup)
MaxOwned == 2        \* longest state list one worker receives
MaxSteps == 2        \* max_steps of the run; the start step is 0..MaxSteps+1
BlockSize == 1       \* replicas per worker in a group (SpecGroup)
ChanCap == 2         \* messages a communicator channel buffers
MaxChildren == 2     \* most runs one launch spawns; most --gpus tokens
MaxJitter == 1       \* random.randint(0, 9999) drawn from 0..MaxJitter
MaxLog == 1          \* bytes a child writes to its log
MaxOvershoot == 1    \* whole time units one time.sleep(0.5) may span
MaxWorld == 3        \* largest MPI world size
MaxReplicas == 4     \* largest configured n_replicas
MaxFactor == 3       \* largest --multiplex-factor
MaxEnvCalls == 5     \* method calls made on one MeldEnv
EnvBlockSize == 2    \* config.block_size of the environment
MaxEpisodeSteps == 2 \* config.max_episode_steps of the environment

Workers == 1..NumWorkers
Ranks == 0..(MaxWorld - 1)

VARIABLES
    \* ---- WorkerReplicaExchangeRunner / run() locals, one per worker ----
    step,         \* self._step
    start,        \* the step the runner was constructed with
    max_steps,    \* self._max_steps
    n_replicas,   \* communicator.n_replicas
    n_workers,    \* communicator.n_workers
    enable_gamd,  \* system_runner._options.enable_gamd and gameld
    minimize,     \* local flag minimize
    states,       \* local list states
    alphas,       \* local list alphas
    all_states,   \* local list all_states
    energies,     \* rows of the energy matrix, as built by _compute_energies
    idx,          \* loop positions: [i, h, r] (1-based)
    wpc,          \* position of the worker in run()
    err,          \* the exception run() ended with
    prepared,     \* engine context set by the last prepare_for_timestep
    down,         \* messages in flight leader -> worker, oldest first
    up,           \* messages in flight worker -> leader, oldest first
    ops,          \* operations of the current iteration, in order
    iter,         \* iterations of the while loop started in this call
    hook,         \* outcome of the gamd hook in the current iteration
    \* ---- the leader of a group ----
    lpc,          \* position of the leader in its step
    lstep,        \* the leader's step counter
    replica_set,  \* the leader's authoritative replica set
    matrix,       \* energy rows gathered in the current step
    \* ---- multi_gpu_multiplex.main and its child processes ----
    opc,          \* position of the orchestrator in main()
    ret,          \* exit code of the orchestrator process, -1 while it runs
    args,         \* parsed arguments: gpus (raw tokens), runs_per_gpu, no_tail
    data_store,   \* Data/data_store.dat exists
    setup_calls,  \* outcomes of the calls of setup_meld.exec_meld_run(), in order
    gpu_list,     \* local gpu_list
    run_counter,  \* local run_counter
    loopv,        \* locals: g, k of the launch loops, run_seed; m of the scans
    snapshot,     \* list(processes.items()) of the current monitor pass
    processes,    \* keys (pids) of the dict processes
    meta,         \* dict meta: pid -> gpu, run_index, seed, log
    last_sizes,   \* dict last_sizes: pid -> read offset
    child,        \* the spawned processes: state, exit code, environment
    rc,           \* Popen.returncode of each handle: <<>> is None, else <<code>>
    files,        \* the log files: content, oldest byte first
    dirs,         \* run directories created
    fwd,          \* per pid, the log positions forwarded to stdout, in order
    reports,      \* "PID .. exited code .." lines printed, in order
    term_sent,    \* handles terminate() was called on
    kill_sent,    \* handles kill() was called on
    elapsed,      \* whole time units since t0 while the grace loop runs, else 0
    interrupts,   \* KeyboardInterrupts raised in main()
    stale,        \* a handle no longer in processes was polled, tailed or signalled
    \* ---- launch_remd.main, one process per MPI rank ----
    mcfg,         \* what every rank sees: arguments, MPI size, cfg.n_replicas (<<>> is
                  \* None), the data store, the launchers on PATH, preset hint variables
    mpc,          \* position of each rank in main()
    mret,         \* exit code of each rank, -1 while it runs
    total,        \* local n_replicas of each rank
    expected_ranks, \* local expected_ranks of each rank
    chosen,       \* local chosen of each rank: the launcher to exec
    hints,        \* MELD_MULTIPLEX_FACTOR, MELD_TOTAL_REPLICAS in the exec'ed environment
    mlog,         \* lines each rank printed, in order
    \* ---- MeldEnv (meld_env.py) ----
    simulation,   \* self.simulation: <<>> for None, else <<the mock simulation>>
    current_step, \* self.current_step
    total_steps,  \* self.total_steps
    episode_data, \* self.episode_data
    temp_dir,     \* self.temp_dir: <<>> for None, else <<directory>>
    got,          \* what the last get_episode_data() returned
    calls         \* the methods called on the environment, in order

wvars == <<step, start, max_steps, n_replicas, n_workers, enable_gamd, minimize,
           states, alphas, all_states, energies, idx, wpc, err, prepared,
           down, up, ops, iter, hook>>

lvars == <<lpc, lstep, replica_set, matrix>>

ovars == <<opc, ret, args, data_store, setup_calls, gpu_list, run_counter,
           loopv, snapshot, processes, meta, last_sizes, child, rc, files,
           dirs, fwd, reports, term_sent, kill_sent, elapsed, interrupts, stale>>

mvars == <<mcfg, mpc, mret, total, expected_ranks, chosen, hints, mlog>>

evars == <<simulation, current_step, total_steps, episode_data, temp_dir, got,
           calls>>

vars == <<wvars, lvars, ovars, mvars, evars>>

(***************************************************************************)
(* Values crossing the communicator boundary.                              *)
(***************************************************************************)
Msg(tag, body) == [tag |-> tag, body |-> body]
NoErr == [type |-> "none", index |-> -1, at |-> "none"]
NoCtx == <<>>

AlphaValues == {1, 2}       \* bias factors a leader hands out
FullSetSizes == {0, 1, 2}   \* sizes of the full replica set a mock peer returns

Min(a, b) == IF a <= b THEN a ELSE b

\* An element of a received state list.  kind "State" is a SystemState;
\* "list" is a nested list; "noalpha" an object without an alpha attribute;
\* "roalpha" an object whose alpha attribute cannot be assigned (as it
\* cannot on a list).
Kinds == {"State", "list", "noalpha", "roalpha"}

Element(k, id) == [kind |-> k, id |-> id, alpha |-> 0, adv |-> "none", ctx |-> NoCtx]

\* All element lists of length n whose j-th element has identity base + j.
RECURSIVE ElementLists(_, _, _)
ElementLists(n, base, kinds) ==
    IF n = 0 THEN {<<>>}
    ELSE {Append(p, Element(k, base + n)) :
            p \in ElementLists(n - 1, base, kinds), k \in kinds}

RECURSIVE AlphaLists(_)
AlphaLists(n) ==
    IF n = 0 THEN {<<>>}
    ELSE {Append(p, a) : p \in AlphaLists(n - 1), a \in AlphaValues}

(***************************************************************************)
(* The simulation engine (system_runner), an opaque collaborator: it       *)
(* remembers what it was last prepared with, and an advance returns a new  *)
(* state that records how, and under which preparation, it was produced.   *)
(***************************************************************************)
PrepareForTimestep(s, alpha, stp) == <<s.id, alpha, stp>>

MinimizeThenRun(s, ctx) == [s EXCEPT !.adv = "min", !.ctx = ctx]

Run(s, ctx) == [s EXCEPT !.adv = "run", !.ctx = ctx]

GetEnergy(s, ctx) == [cfg |-> s.id, alpha |-> ctx[2], step |-> ctx[3]]

(***************************************************************************)
(* WorkerReplicaExchangeRunner.run, one action per statement.              *)
(***************************************************************************)
wconf == <<start, max_steps, n_replicas, n_workers, enable_gamd>>

\* 1-based position of the first element the shape check rejects, 0 if none
FirstBad(ss) ==
    IF \E j \in 1..Len(ss) : ss[j].kind \in {"list", "noalpha"}
    THEN CHOOSE j \in 1..Len(ss) :
            /\ ss[j].kind \in {"list", "noalpha"}
            /\ \A k \in 1..(j - 1) : ss[k].kind \notin {"list", "noalpha"}
    ELSE 0

\* a plausible slip: the divisibility check is made only when a step is to run
WCheckWhenStepsRemain(w) ==
    /\ UNCHANGED <<lvars, ovars, mvars, evars>>
    /\ wpc[w] = "check"
    /\ IF n_replicas[w] % n_workers[w] # 0 /\ step[w] <= max_steps[w]
       THEN /\ err' = [err EXCEPT ![w] = [type |-> "ValueError", index |-> -1, at |-> "check"]]
            /\ wpc' = [wpc EXCEPT ![w] = "raised"]
       ELSE /\ wpc' = [wpc EXCEPT ![w] = "loop"]
            /\ err' = err
    /\ UNCHANGED <<step, wconf, minimize, states, alphas, all_states, energies,
                   idx, prepared, down, up, ops, iter, hook>>

\* lines 59-62: the divisibility check
WCheck(w) ==
    /\ UNCHANGED <<lvars, ovars, mvars, evars>>
    /\ wpc[w] = "check"
    /\ IF n_replicas[w] % n_workers[w] # 0
       THEN /\ err' = [err EXCEPT ![w] = [type |-> "ValueError", index |-> -1, at |-> "check"]]
            /\ wpc' = [wpc EXCEPT ![w] = "raised"]
       ELSE /\ wpc' = [wpc EXCEPT ![w] = "loop"]
            /\ err' = err
    /\ UNCHANGED <<step, wconf, minimize, states, alphas, all_states, energies,
                   idx, prepared, down, up, ops, iter, hook>>

\* no call of change_thresholds was made in the current iteration
NoHook == [outcome |-> "none", step |-> -1, leader |-> FALSE]

\* a plausible slip: the loop reuses the states it already holds instead of
\* waiting for the leader's next assignment
WLoopNoReceive(w) ==
    /\ UNCHANGED <<lvars, ovars, mvars, evars>>
    /\ wpc[w] = "loop"
    /\ IF step[w] <= max_steps[w]
       THEN /\ wpc' = [wpc EXCEPT ![w] = IF iter[w] = 0 THEN "recv_states" ELSE "for"]
            /\ idx' = [idx EXCEPT ![w].i = 1]
            /\ ops' = [ops EXCEPT ![w] = <<>>]
            /\ hook' = [hook EXCEPT ![w] = NoHook]
            /\ iter' = [iter EXCEPT ![w] = @ + 1]
       ELSE /\ wpc' = [wpc EXCEPT ![w] = "done"]
            /\ UNCHANGED <<ops, iter, hook, idx>>
    /\ UNCHANGED <<step, wconf, minimize, states, alphas, all_states, energies,
                   err, prepared, down, up>>

\* a plausible slip: the loop stops one step short of max_steps
WLoopOffByOne(w) ==
    /\ UNCHANGED <<lvars, ovars, mvars, evars>>
    /\ wpc[w] = "loop"
    /\ IF step[w] < max_steps[w]
       THEN /\ wpc' = [wpc EXCEPT ![w] = "recv_states"]
            /\ ops' = [ops EXCEPT ![w] = <<>>]
            /\ hook' = [hook EXCEPT ![w] = NoHook]
            /\ iter' = [iter EXCEPT ![w] = @ + 1]
       ELSE /\ wpc' = [wpc EXCEPT ![w] = "done"]
            /\ UNCHANGED <<ops, iter, hook>>
    /\ UNCHANGED <<step, wconf, minimize, states, alphas, all_states, energies,
                   idx, err, prepared, down, up>>

\* line 68: the while test
WLoop(w) ==
    /\ UNCHANGED <<lvars, ovars, mvars, evars>>
    /\ wpc[w] = "loop"
    /\ IF step[w] <= max_steps[w]
       THEN /\ wpc' = [wpc EXCEPT ![w] = "recv_states"]
            /\ ops' = [ops EXCEPT ![w] = <<>>]
            /\ hook' = [hook EXCEPT ![w] = NoHook]
            /\ iter' = [iter EXCEPT ![w] = @ + 1]
       ELSE /\ wpc' = [wpc EXCEPT ![w] = "done"]
            /\ UNCHANGED <<ops, iter, hook>>
    /\ UNCHANGED <<step, wconf, minimize, states, alphas, all_states, energies,
                   idx, err, prepared, down, up>>

\* a plausible slip: a failed exchange is swallowed and tried again
CommFailureRetry(w, at) ==
    /\ err' = err
    /\ wpc' = wpc

\* a failed (timed-out or disconnected) exchange raises out of run()
CommFailure(w, at) ==
    /\ err' = [err EXCEPT ![w] = [type |-> "CommError", index |-> -1, at |-> at]]
    /\ wpc' = [wpc EXCEPT ![w] = "raised"]

\* line 74: states = communicator.receive_states_from_leader()
WRecvStates(w) ==
    /\ UNCHANGED <<lvars, ovars, mvars, evars>>
    /\ wpc[w] = "recv_states"
    /\ down[w] # <<>>
    /\ Head(down[w]).tag \in {"states", "fail"}
    /\ down' = [down EXCEPT ![w] = Tail(@)]
    /\ ops' = [ops EXCEPT ![w] = Append(@, "recv_states")]
    /\ IF Head(down[w]).tag = "fail"
       THEN /\ CommFailure(w, "recv_states")
            /\ states' = states
       ELSE /\ states' = [states EXCEPT ![w] = Head(down[w]).body]
            /\ wpc' = [wpc EXCEPT ![w] = "recv_alphas"]
            /\ err' = err
    /\ UNCHANGED <<step, wconf, minimize, alphas, all_states, energies, idx,
                   prepared, up, iter, hook>>

\* line 75: alphas = communicator.receive_alphas_from_leader()
WRecvAlphas(w) ==
    /\ UNCHANGED <<lvars, ovars, mvars, evars>>
    /\ wpc[w] = "recv_alphas"
    /\ down[w] # <<>>
    /\ Head(down[w]).tag \in {"alphas", "fail"}
    /\ down' = [down EXCEPT ![w] = Tail(@)]
    /\ ops' = [ops EXCEPT ![w] = Append(@, "recv_alphas")]
    /\ IF Head(down[w]).tag = "fail"
       THEN /\ CommFailure(w, "recv_alphas")
            /\ alphas' = alphas
       ELSE /\ alphas' = [alphas EXCEPT ![w] = Head(down[w]).body]
            /\ wpc' = [wpc EXCEPT ![w] = "validate"]
            /\ err' = err
    /\ UNCHANGED <<step, wconf, minimize, states, all_states, energies, idx,
                   prepared, up, iter, hook>>

\* a plausible slip: the shape check is left out
WValidateSkip(w) ==
    /\ UNCHANGED <<lvars, ovars, mvars, evars>>
    /\ wpc[w] = "validate"
    /\ wpc' = [wpc EXCEPT ![w] = "for"]
    /\ idx' = [idx EXCEPT ![w].i = 1]
    /\ UNCHANGED <<step, wconf, minimize, states, alphas, all_states, energies,
                   err, prepared, down, up, ops, iter, hook>>

\* lines 78-87: the shape check over every received element
WValidate(w) ==
    /\ UNCHANGED <<lvars, ovars, mvars, evars>>
    /\ wpc[w] = "validate"
    /\ LET b == FirstBad(states[w]) IN
       IF b # 0
       THEN /\ err' = [err EXCEPT ![w] =
                    [type |-> IF states[w][b].kind = "list" THEN "TypeError"
                              ELSE "AttributeError",
                     index |-> b - 1, at |-> "validate"]]
            /\ wpc' = [wpc EXCEPT ![w] = "raised"]
            /\ idx' = idx
       ELSE /\ wpc' = [wpc EXCEPT ![w] = "for"]
            /\ idx' = [idx EXCEPT ![w].i = 1]
            /\ err' = err
    /\ UNCHANGED <<step, wconf, minimize, states, alphas, all_states, energies,
                   prepared, down, up, ops, iter, hook>>

\* lines 90-116: one pass of "for i, (state, alpha) in enumerate(zip(states,
\* alphas))": state.alpha = alpha (fatal when the attribute cannot be set),
\* prepare_for_timestep(state, alpha, step), then minimize_then_run on the
\* first iteration of run() and run afterwards; states[i] = state
WFor(w) ==
    /\ UNCHANGED <<lvars, ovars, mvars, evars>>
    /\ wpc[w] = "for"
    /\ LET i == idx[w].i IN
       IF i > Min(Len(states[w]), Len(alphas[w]))
       THEN /\ wpc' = [wpc EXCEPT ![w] = "clear_minimize"]
            /\ UNCHANGED <<states, idx, err, prepared, ops>>
       ELSE IF states[w][i].kind \in {"roalpha", "list"}
       THEN /\ err' = [err EXCEPT ![w] =
                    [type |-> "AttributeError", index |-> i - 1, at |-> "assign"]]
            /\ wpc' = [wpc EXCEPT ![w] = "raised"]
            /\ ops' = [ops EXCEPT ![w] = Append(@, "assign")]
            /\ UNCHANGED <<states, idx, prepared>>
       ELSE LET state == [states[w][i] EXCEPT !.alpha = alphas[w][i]]
                ctx == PrepareForTimestep(state, alphas[w][i], step[w])
            IN
            /\ prepared' = [prepared EXCEPT ![w] = ctx]
            /\ states' = [states EXCEPT ![w][i] =
                   IF minimize[w] THEN MinimizeThenRun(state, ctx)
                                  ELSE Run(state, ctx)]
            /\ ops' = [ops EXCEPT ![w] = @ \o
                   <<"assign", "prepare", IF minimize[w] THEN "minimize" ELSE "run">>]
            /\ idx' = [idx EXCEPT ![w].i = i + 1]
            /\ UNCHANGED <<wpc, err>>
    /\ UNCHANGED <<step, wconf, minimize, alphas, all_states, energies, down,
                   up, iter, hook>>

\* a plausible slip: the one-shot flag is never cleared
WClearMinimizeNever(w) ==
    /\ UNCHANGED <<lvars, ovars, mvars, evars>>
    /\ wpc[w] = "clear_minimize"
    /\ wpc' = [wpc EXCEPT ![w] = "send_states"]
    /\ UNCHANGED <<step, wconf, minimize, states, alphas, all_states, energies,
                   idx, err, prepared, down, up, ops, iter, hook>>

\* line 118: minimize = False
WClearMinimize(w) ==
    /\ UNCHANGED <<lvars, ovars, mvars, evars>>
    /\ wpc[w] = "clear_minimize"
    /\ minimize' = [minimize EXCEPT ![w] = FALSE]
    /\ wpc' = [wpc EXCEPT ![w] = "send_states"]
    /\ UNCHANGED <<step, wconf, states, alphas, all_states, energies, idx, err,
                   prepared, down, up, ops, iter, hook>>

\* a plausible slip: the energies are computed from the full set of the
\* previous step, before this step's full set is received
WSendStatesThenEnergies(w) ==
    /\ UNCHANGED <<lvars, ovars, mvars, evars>>
    /\ wpc[w] = "send_states"
    /\ Len(up[w]) < ChanCap
    /\ up' = [up EXCEPT ![w] = Append(@, Msg("states", states[w]))]
    /\ ops' = [ops EXCEPT ![w] = Append(@, "send_states")]
    /\ wpc' = [wpc EXCEPT ![w] = "energies"]
    /\ UNCHANGED <<step, wconf, minimize, states, alphas, all_states, energies,
                   idx, err, prepared, down, iter, hook>>

\* line 121: communicator.send_states_to_leader(states); an exception of the
\* communicator is not caught
WSendStates(w) ==
    /\ UNCHANGED <<lvars, ovars, mvars, evars>>
    /\ wpc[w] = "send_states"
    /\ ops' = [ops EXCEPT ![w] = Append(@, "send_states")]
    /\ \/ /\ Len(up[w]) < ChanCap
          /\ up' = [up EXCEPT ![w] = Append(@, Msg("states", states[w]))]
          /\ wpc' = [wpc EXCEPT ![w] = "recv_all"]
          /\ err' = err
       \/ /\ CommFailure(w, "send_states")
          /\ up' = up
    /\ UNCHANGED <<step, wconf, minimize, states, alphas, all_states, energies,
                   idx, prepared, down, iter, hook>>

\* line 125: all_states = communicator.receive_all_states_from_leader()
WRecvAll(w) ==
    /\ UNCHANGED <<lvars, ovars, mvars, evars>>
    /\ wpc[w] = "recv_all"
    /\ down[w] # <<>>
    /\ Head(down[w]).tag \in {"all_states", "fail"}
    /\ down' = [down EXCEPT ![w] = Tail(@)]
    /\ ops' = [ops EXCEPT ![w] = Append(@, "recv_all")]
    /\ IF Head(down[w]).tag = "fail"
       THEN /\ CommFailure(w, "recv_all")
            /\ all_states' = all_states
       ELSE /\ all_states' = [all_states EXCEPT ![w] = Head(down[w]).body]
            /\ wpc' = [wpc EXCEPT ![w] = "energies"]
            /\ err' = err
    /\ UNCHANGED <<step, wconf, minimize, states, alphas, energies, idx,
                   prepared, up, iter, hook>>

\* a plausible slip: each state is evaluated under its own bias factor
\* instead of the hamiltonian's
RECURSIVE EnergyRowOwnAlpha(_, _, _, _)
EnergyRowOwnAlpha(hamiltonian, all, n, stp) ==
    IF n = 0 THEN <<>>
    ELSE Append(EnergyRowOwnAlpha(hamiltonian, all, n - 1, stp),
                GetEnergy(all[n], PrepareForTimestep(all[n], all[n].alpha, stp)))

\* lines 148-151: the row of one hamiltonian over the first n states of all
RECURSIVE EnergyRow(_, _, _, _)
EnergyRow(hamiltonian, all, n, stp) ==
    IF n = 0 THEN <<>>
    ELSE Append(EnergyRow(hamiltonian, all, n - 1, stp),
                GetEnergy(all[n], PrepareForTimestep(all[n], hamiltonian.alpha, stp)))

\* lines 139-154: _compute_energies over the first n hamiltonians
RECURSIVE ComputeEnergies(_, _, _, _)
ComputeEnergies(hs, all, n, stp) ==
    IF n = 0 THEN <<>>
    ELSE Append(ComputeEnergies(hs, all, n - 1, stp),
                EnergyRow(hs[n], all, Len(all), stp))

\* the engine calls _compute_energies makes, in order
RECURSIVE EnergyOps(_)
EnergyOps(n) ==
    IF n = 0 THEN <<>> ELSE EnergyOps(n - 1) \o <<"prepare_energy", "get_energy">>

\* line 126: energies = self._compute_energies(states, all_states, system_runner)
WComputeEnergies(w) ==
    /\ UNCHANGED <<lvars, ovars, mvars, evars>>
    /\ wpc[w] = "energies"
    /\ energies' = [energies EXCEPT ![w] =
           ComputeEnergies(states[w], all_states[w], Len(states[w]), step[w])]
    /\ prepared' = [prepared EXCEPT ![w] =
           IF Len(states[w]) = 0 \/ Len(all_states[w]) = 0 THEN @
           ELSE PrepareForTimestep(all_states[w][Len(all_states[w])],
                                   states[w][Len(states[w])].alpha, step[w])]
    /\ ops' = [ops EXCEPT ![w] = @ \o EnergyOps(Len(states[w]) * Len(all_states[w]))]
    /\ idx' = [idx EXCEPT ![w].h = Len(states[w]) + 1, ![w].r = Len(all_states[w]) + 1]
    /\ wpc' = [wpc EXCEPT ![w] = "send_energies"]
    /\ UNCHANGED <<step, wconf, minimize, states, alphas, all_states, err,
                   down, up, iter, hook>>

\* line 127: communicator.send_energies_to_leader(energies); an exception of
\* the communicator is not caught
WSendEnergies(w) ==
    /\ UNCHANGED <<lvars, ovars, mvars, evars>>
    /\ wpc[w] = "send_energies"
    /\ ops' = [ops EXCEPT ![w] = Append(@, "send_energies")]
    /\ \/ /\ Len(up[w]) < ChanCap
          /\ up' = [up EXCEPT ![w] = Append(@, Msg("energies", energies[w]))]
          /\ wpc' = [wpc EXCEPT ![w] = "hook"]
          /\ err' = err
       \/ /\ CommFailure(w, "send_energies")
          /\ up' = up
    /\ UNCHANGED <<step, wconf, minimize, states, alphas, all_states, energies,
                   idx, prepared, down, iter, hook>>

\* a plausible slip: the exception of the hook is not caught
WHookRaises(w) ==
    /\ UNCHANGED <<lvars, ovars, mvars, evars>>
    /\ wpc[w] = "hook"
    /\ IF enable_gamd[w]
       THEN /\ ops' = [ops EXCEPT ![w] = Append(@, "hook")]
            /\ \E outcome \in {"ok", "failed"} :
                  /\ hook' = [hook EXCEPT ![w] =
                        [outcome |-> outcome, step |-> step[w], leader |-> FALSE]]
                  /\ IF outcome = "failed"
                     THEN /\ err' = [err EXCEPT ![w] =
                                [type |-> "HookError", index |-> -1, at |-> "hook"]]
                          /\ wpc' = [wpc EXCEPT ![w] = "raised"]
                     ELSE /\ wpc' = [wpc EXCEPT ![w] = "inc"]
                          /\ err' = err
       ELSE /\ wpc' = [wpc EXCEPT ![w] = "inc"]
            /\ UNCHANGED <<ops, hook, err>>
    /\ UNCHANGED <<step, wconf, minimize, states, alphas, all_states, energies,
                   idx, prepared, down, up, iter>>

\* lines 129-135: the optional gamd threshold hook, called with the step and
\* leader = False; an exception it raises is caught and logged
WHook(w) ==
    /\ UNCHANGED <<lvars, ovars, mvars, evars>>
    /\ wpc[w] = "hook"
    /\ IF enable_gamd[w]
       THEN /\ ops' = [ops EXCEPT ![w] = Append(@, "hook")]
            /\ \E outcome \in {"ok", "failed"} :
                  hook' = [hook EXCEPT ![w] =
                     [outcome |-> outcome, step |-> step[w], leader |-> FALSE]]
       ELSE UNCHANGED <<ops, hook>>
    /\ wpc' = [wpc EXCEPT ![w] = "inc"]
    /\ UNCHANGED <<step, wconf, minimize, states, alphas, all_states, energies,
                   idx, err, prepared, down, up, iter>>

\* line 137: self._step += 1
WInc(w) ==
    /\ UNCHANGED <<lvars, ovars, mvars, evars>>
    /\ wpc[w] = "inc"
    /\ step' = [step EXCEPT ![w] = @ + 1]
    /\ wpc' = [wpc EXCEPT ![w] = "loop"]
    /\ UNCHANGED <<wconf, minimize, states, alphas, all_states, energies, idx,
                   err, prepared, down, up, ops, iter, hook>>

WorkerStep(w) ==
    \/ WCheck(w)
    \/ WLoop(w)
    \/ WRecvStates(w)
    \/ WRecvAlphas(w)
    \/ WValidate(w)
    \/ WFor(w)
    \/ WClearMinimize(w)
    \/ WSendStates(w)
    \/ WRecvAll(w)
    \/ WComputeEnergies(w)
    \/ WSendEnergies(w)
    \/ WHook(w)
    \/ WInc(w)

(***************************************************************************)
(* The peer of a single worker: whatever a communicator (or a mock of it)  *)
(* may hand to run().  State lists may hold malformed elements; the        *)
(* bias-factor list is index-aligned with the state list unless anyLen.    *)
(***************************************************************************)
MockStateLists == UNION {ElementLists(n, 0, Kinds) : n \in 0..MaxOwned}

MockAlphaLists(w, anyLen) ==
    IF anyLen THEN UNION {AlphaLists(n) : n \in 0..MaxOwned}
    ELSE AlphaLists(Len(states[w]))

MockFullSets == UNION {ElementLists(n, 0, {"State"}) : n \in FullSetSizes}

MockReplies(w, anyLen) ==
    {Msg("fail", <<>>)} \cup
    CASE wpc[w] = "recv_states" -> {Msg("states", b) : b \in MockStateLists}
      [] wpc[w] = "recv_alphas" -> {Msg("alphas", b) : b \in MockAlphaLists(w, anyLen)}
      [] wpc[w] = "recv_all" -> {Msg("all_states", b) : b \in MockFullSets}

MockDeliver(w, anyLen) ==
    /\ UNCHANGED <<lvars, ovars, mvars, evars>>
    /\ wpc[w] \in {"recv_states", "recv_alphas", "recv_all"}
    /\ down[w] = <<>>
    /\ up[w] = <<>>
    /\ \E m \in MockReplies(w, anyLen) : down' = [down EXCEPT ![w] = <<m>>]
    /\ UNCHANGED <<step, wconf, minimize, states, alphas, all_states, energies,
                   idx, wpc, err, prepared, up, ops, iter, hook>>

MockCollect(w) ==
    /\ UNCHANGED <<lvars, ovars, mvars, evars>>
    /\ up[w] # <<>>
    /\ up' = [up EXCEPT ![w] = Tail(@)]
    /\ UNCHANGED <<step, wconf, minimize, states, alphas, all_states, energies,
                   idx, wpc, err, prepared, down, ops, iter, hook>>

(***************************************************************************)
(* The leader of a group, per step: scatter the blocks of states and bias  *)
(* factors, gather the advanced states, broadcast the full replica set,    *)
(* gather the energy rows, decide the exchange, count the step.            *)
(***************************************************************************)
NumReplicas == NumWorkers * BlockSize

Block(w) == ((w - 1) * BlockSize + 1)..(w * BlockSize)

BlockOf(seq, w) == SubSeq(seq, (w - 1) * BlockSize + 1, w * BlockSize)

LeaderAlpha(r) == ((r - 1) % Cardinality(AlphaValues)) + 1

RECURSIVE Concat(_, _)
Concat(f, n) == IF n = 0 THEN <<>> ELSE Concat(f, n - 1) \o f[n]

HasRoom == \A w \in Workers : Len(down[w]) < ChanCap

AllSent(tag) == \A w \in Workers : up[w] # <<>> /\ Head(up[w]).tag = tag

LStart ==
    /\ UNCHANGED <<ovars, mvars, evars>>
    /\ lpc = "start"
    /\ lpc' = IF lstep <= MaxSteps THEN "send_states" ELSE "done"
    /\ UNCHANGED <<lstep, replica_set, matrix, wvars>>

LSendStates ==
    /\ UNCHANGED <<ovars, mvars, evars>>
    /\ lpc = "send_states"
    /\ HasRoom
    /\ down' = [w \in Workers |-> Append(down[w], Msg("states", BlockOf(replica_set, w)))]
    /\ lpc' = "send_alphas"
    /\ UNCHANGED <<lstep, replica_set, matrix, step, wconf, minimize, states,
                   alphas, all_states, energies, idx, wpc, err, prepared, up,
                   ops, iter, hook>>

LSendAlphas ==
    /\ UNCHANGED <<ovars, mvars, evars>>
    /\ lpc = "send_alphas"
    /\ HasRoom
    /\ down' = [w \in Workers |->
                 Append(down[w], Msg("alphas", [j \in 1..BlockSize |->
                                                LeaderAlpha((w - 1) * BlockSize + j)]))]
    /\ lpc' = "gather_states"
    /\ UNCHANGED <<lstep, replica_set, matrix, step, wconf, minimize, states,
                   alphas, all_states, energies, idx, wpc, err, prepared, up,
                   ops, iter, hook>>

LGatherStates ==
    /\ UNCHANGED <<ovars, mvars, evars>>
    /\ lpc = "gather_states"
    /\ AllSent("states")
    /\ replica_set' = Concat([w \in Workers |-> Head(up[w]).body], NumWorkers)
    /\ up' = [w \in Workers |-> Tail(up[w])]
    /\ lpc' = "send_all"
    /\ UNCHANGED <<lstep, matrix, step, wconf, minimize, states, alphas,
                   all_states, energies, idx, wpc, err, prepared, down, ops,
                   iter, hook>>

LSendAll ==
    /\ UNCHANGED <<ovars, mvars, evars>>
    /\ lpc = "send_all"
    /\ HasRoom
    /\ down' = [w \in Workers |-> Append(down[w], Msg("all_states", replica_set))]
    /\ lpc' = "gather_energies"
    /\ UNCHANGED <<lstep, replica_set, matrix, step, wconf, minimize, states,
                   alphas, all_states, energies, idx, wpc, err, prepared, up,
                   ops, iter, hook>>

LGatherEnergies ==
    /\ UNCHANGED <<ovars, mvars, evars>>
    /\ lpc = "gather_energies"
    /\ AllSent("energies")
    /\ matrix' = Concat([w \in Workers |-> Head(up[w]).body], NumWorkers)
    /\ up' = [w \in Workers |-> Tail(up[w])]
    /\ lstep' = lstep + 1
    /\ lpc' = "start"
    /\ UNCHANGED <<replica_set, step, wconf, minimize, states, alphas,
                   all_states, energies, idx, wpc, err, prepared, down, ops,
                   iter, hook>>

(***************************************************************************)
(* The ensemble orchestrator: values.                                      *)
(***************************************************************************)
SeedBase == 1000     \* --seed-base default
GracePeriod == 10    \* time units waited before kill

Devices == {"0", "1"}
Tokens == Devices \cup {""}      \* what a --gpus token strips to
Pids == 1..MaxChildren           \* pid of the n-th spawned child is n

LogKeys == Devices \X (0..(MaxChildren - 1))

NoChild == [st |-> "none", code |-> 0, visible |-> "", seed |-> 0,
            log |-> <<"", 0>>, wrote |-> 0, term |-> FALSE]
NoMeta == [gpu |-> "", run_index |-> -1, seed |-> 0, log |-> <<"", 0>>]

RECURSIVE TokenLists(_)
TokenLists(n) ==
    IF n = 0 THEN {<<>>}
    ELSE {Append(p, t) : p \in TokenLists(n - 1), t \in Tokens}

\* line 90: [g.strip() for g in args.gpus.split(',') if g.strip()]
RECURSIVE ParseGpus(_)
ParseGpus(raw) ==
    IF raw = <<>> THEN <<>>
    ELSE IF Head(raw) = "" THEN ParseGpus(Tail(raw))
    ELSE <<Head(raw)>> \o ParseGpus(Tail(raw))

\* the keys of a dict in insertion order (pids are handed out in order)
RECURSIVE Ordered(_)
Ordered(S) ==
    IF S = {} THEN <<>>
    ELSE LET m == CHOOSE x \in S : \A y \in S : x <= y
         IN <<m>> \o Ordered(S \ {m})

\* the orchestrator before main() is entered
OrchInitCommon ==
    /\ ret = -1
    /\ setup_calls = <<>>
    /\ gpu_list = <<>>
    /\ run_counter = 0
    /\ loopv = [g |-> 1, k |-> 0, m |-> 1, run_seed |-> 0]
    /\ snapshot = <<>>
    /\ processes = {}
    /\ meta = [p \in Pids |-> NoMeta]
    /\ last_sizes = [p \in Pids |-> -1]
    /\ child = [p \in Pids |-> NoChild]
    /\ rc = [p \in Pids |-> <<>>]
    /\ files = [f \in LogKeys |-> <<>>]
    /\ dirs = {}
    /\ fwd = [p \in Pids |-> <<>>]
    /\ reports = <<>>
    /\ term_sent = {}
    /\ kill_sent = {}
    /\ elapsed = 0
    /\ interrupts = 0
    /\ stale = FALSE

\* launch_remd.main not entered by any rank
LaunchOff ==
    /\ mcfg = [size |-> 0, cfg_n |-> <<>>, multiplex_factor |-> 1,
               allow_partial |-> FALSE, store |-> TRUE, which |-> {}, preset |-> <<>>]
    /\ mpc = [r \in Ranks |-> "off"]
    /\ mret = [r \in Ranks |-> -1]
    /\ total = [r \in Ranks |-> 0]
    /\ expected_ranks = [r \in Ranks |-> 0]
    /\ chosen = [r \in Ranks |-> "none"]
    /\ hints = [r \in Ranks |-> <<>>]
    /\ mlog = [r \in Ranks |-> <<>>]

\* lines 34-85: MeldEnv.__init__ leaves no simulation, zero counters and an
\* empty episode; this is also the state of an environment nobody calls
EnvConstructed ==
    /\ simulation = <<>>
    /\ current_step = 0
    /\ total_steps = 0
    /\ episode_data = <<>>
    /\ temp_dir = <<>>

EnvOff ==
    /\ EnvConstructed
    /\ got = <<>>
    /\ calls = <<>>

OrchOff ==
    /\ OrchInitCommon
    /\ opc = "off"
    /\ args = [gpus |-> <<>>, runs_per_gpu |-> 0, no_tail |-> FALSE]
    /\ data_store = TRUE

(***************************************************************************)
(* Initial states and specifications of the worker loop.                   *)
(***************************************************************************)
WInitCommon ==
    /\ minimize = [w \in Workers |-> TRUE]
    /\ states = [w \in Workers |-> <<>>]
    /\ alphas = [w \in Workers |-> <<>>]
    /\ all_states = [w \in Workers |-> <<>>]
    /\ energies = [w \in Workers |-> <<>>]
    /\ idx = [w \in Workers |-> [i |-> 1, h |-> 1, r |-> 1]]
    /\ err = [w \in Workers |-> NoErr]
    /\ prepared = [w \in Workers |-> NoCtx]
    /\ down = [w \in Workers |-> <<>>]
    /\ up = [w \in Workers |-> <<>>]
    /\ ops = [w \in Workers |-> <<>>]
    /\ iter = [w \in Workers |-> 0]
    /\ hook = [w \in Workers |-> NoHook]
    /\ max_steps = [w \in Workers |-> MaxSteps]

\* one worker (worker 1) constructed with any start step, run() not yet called
InitWorker ==
    /\ WInitCommon
    /\ \E s \in 0..(MaxSteps + 1) : step = [w \in Workers |-> s]
    /\ start = step
    /\ \E n \in {NumReplicas, NumReplicas + 1} : n_replicas = [w \in Workers |-> n]
    /\ n_workers = [w \in Workers |-> NumWorkers]
    /\ \E g \in BOOLEAN : enable_gamd = [w \in Workers |-> g]
    /\ wpc = [w \in Workers |-> IF w = 1 THEN "check" ELSE "idle"]
    /\ lpc = "off"
    /\ lstep = 0
    /\ replica_set = <<>>
    /\ matrix = <<>>
    /\ OrchOff
    /\ LaunchOff
    /\ EnvOff

NextWorker ==
    \/ WorkerStep(1)
    \/ MockDeliver(1, FALSE)
    \/ MockCollect(1)

SpecWorker == InitWorker /\ [][NextWorker]_vars

\* a group resumed by every rank from the same checkpointed step
InitGroup ==
    /\ WInitCommon
    /\ \E s \in 0..(MaxSteps + 1) :
          /\ step = [w \in Workers |-> s]
          /\ lstep = s
    /\ start = step
    /\ n_replicas = [w \in Workers |-> NumReplicas]
    /\ n_workers = [w \in Workers |-> NumWorkers]
    /\ \E g \in BOOLEAN : enable_gamd = [w \in Workers |-> g]
    /\ wpc = [w \in Workers |-> "check"]
    /\ lpc = "start"
    /\ replica_set \in ElementLists(NumReplicas, 0, {"State"})
    /\ matrix = <<>>
    /\ OrchOff
    /\ LaunchOff
    /\ EnvOff

LeaderStep ==
    \/ LStart
    \/ LSendStates
    \/ LSendAlphas
    \/ LGatherStates
    \/ LSendAll
    \/ LGatherEnergies

NextGroup ==
    \/ \E w \in Workers : WorkerStep(w)
    \/ LeaderStep

SpecGroup == InitGroup /\ [][NextGroup]_vars

(***************************************************************************)
(* multi_gpu_multiplex.main, one action per statement or loop pass.        *)
(***************************************************************************)
ofixed == <<wvars, lvars, args, mvars, evars>>

LogKey(gpu, k) == <<gpu, k>>

\* how lines 55-58 can end: the setup returned and left the file, the setup
\* returned without the file, or the import or the call raised (with or
\* without the file written)
SetupOutcomes == {"created", "nothing", "raised"}

\* a plausible slip: the result of the setup is not looked at
OEnsureUnchecked ==
    /\ opc = "ensure"
    /\ IF data_store
       THEN UNCHANGED <<data_store, setup_calls>>
       ELSE \E outcome \in SetupOutcomes, after \in BOOLEAN :
               /\ outcome = "created" => after
               /\ outcome = "nothing" => ~after
               /\ setup_calls' = Append(setup_calls, outcome)
               /\ data_store' = after
    /\ opc' = "parse"
    /\ UNCHANGED <<ofixed, ret, gpu_list, run_counter, loopv, snapshot, processes,
                   meta, last_sizes, child, rc, files, dirs, fwd, reports,
                   term_sent, kill_sent, elapsed, interrupts, stale>>

\* lines 51-64 (called at line 88): ensure_datastore()
OEnsure ==
    /\ opc = "ensure"
    /\ IF data_store
       THEN /\ opc' = "parse"
            /\ UNCHANGED <<data_store, setup_calls, ret>>
       ELSE \E outcome \in SetupOutcomes, after \in BOOLEAN :
               /\ outcome = "created" => after
               /\ outcome = "nothing" => ~after
               /\ setup_calls' = Append(setup_calls, outcome)
               /\ data_store' = after
               /\ IF outcome = "created"
                  THEN opc' = "parse" /\ ret' = ret
                  ELSE opc' = "exited" /\ ret' = 1
    /\ UNCHANGED <<ofixed, gpu_list, run_counter, loopv, snapshot, processes,
                   meta, last_sizes, child, rc, files, dirs, fwd, reports,
                   term_sent, kill_sent, elapsed, interrupts, stale>>

\* a plausible slip: an empty device list is not rejected
OParseUnchecked ==
    /\ opc = "parse"
    /\ gpu_list' = ParseGpus(args.gpus)
    /\ opc' = "launch"
    /\ run_counter' = 0
    /\ loopv' = [loopv EXCEPT !.g = 1, !.k = 0]
    /\ UNCHANGED <<ofixed, ret, data_store, setup_calls, snapshot, processes, meta,
                   last_sizes, child, rc, files, dirs, fwd, reports, term_sent,
                   kill_sent, elapsed, interrupts, stale>>

\* lines 90-108: parse the device list, reject an empty one, set up the locals
OParse ==
    /\ opc = "parse"
    /\ gpu_list' = ParseGpus(args.gpus)
    /\ IF ParseGpus(args.gpus) = <<>>
       THEN opc' = "returned" /\ ret' = 2
       ELSE opc' = "launch" /\ ret' = ret
    /\ run_counter' = 0
    /\ loopv' = [loopv EXCEPT !.g = 1, !.k = 0]
    /\ UNCHANGED <<ofixed, data_store, setup_calls, snapshot, processes, meta,
                   last_sizes, child, rc, files, dirs, fwd, reports, term_sent,
                   kill_sent, elapsed, interrupts, stale>>

\* line 113: args.seed_base + run_counter + random.randint(0, 9999)
RunSeed(counter, jitter) == SeedBase + counter + jitter

\* lines 110-115: the loop headers; run_counter, run_seed and run_dir.mkdir
OLaunchNext ==
    /\ opc = "launch"
    /\ IF loopv.g > Len(gpu_list)
       THEN /\ opc' = "after_launch"
            /\ UNCHANGED <<loopv, run_counter, dirs>>
       ELSE IF loopv.k >= args.runs_per_gpu
       THEN /\ loopv' = [loopv EXCEPT !.g = @ + 1, !.k = 0]
            /\ UNCHANGED <<opc, run_counter, dirs>>
       ELSE /\ run_counter' = run_counter + 1
            /\ \E jitter \in 0..MaxJitter :
                  loopv' = [loopv EXCEPT !.run_seed = RunSeed(run_counter + 1, jitter)]
            /\ dirs' = dirs \cup {LogKey(gpu_list[loopv.g], loopv.k)}
            /\ opc' = "open_log"
    /\ UNCHANGED <<ofixed, ret, data_store, setup_calls, gpu_list, snapshot,
                   processes, meta, last_sizes, child, rc, files, fwd, reports,
                   term_sent, kill_sent, elapsed, interrupts, stale>>

\* line 121: open(log_path, 'wb') creates or truncates the log
OOpenLog ==
    /\ opc = "open_log"
    /\ files' = [files EXCEPT ![LogKey(gpu_list[loopv.g], loopv.k)] = <<>>]
    /\ opc' = "write_header"
    /\ UNCHANGED <<ofixed, ret, data_store, setup_calls, gpu_list, run_counter,
                   loopv, snapshot, processes, meta, last_sizes, child, rc,
                   dirs, fwd, reports, term_sent, kill_sent, elapsed,
                   interrupts, stale>>

Header(gpu, k, seed) == [by |-> "orchestrator", gpu |-> gpu, run_index |-> k, seed |-> seed]

\* a write at offset 0 of a file opened without O_APPEND
WriteAtStart(data, byte) ==
    IF data = <<>> THEN <<byte>> ELSE [data EXCEPT ![1] = byte]

\* line 122: lf.write(header line); the file is closed on leaving the with
OWriteHeader ==
    /\ opc = "write_header"
    /\ files' = [files EXCEPT ![LogKey(gpu_list[loopv.g], loopv.k)] =
                   WriteAtStart(@, Header(gpu_list[loopv.g], loopv.k, loopv.run_seed))]
    /\ opc' = "spawn"
    /\ UNCHANGED <<ofixed, ret, data_store, setup_calls, gpu_list, run_counter,
                   loopv, snapshot, processes, meta, last_sizes, child, rc,
                   dirs, fwd, reports, term_sent, kill_sent, elapsed,
                   interrupts, stale>>

\* a plausible slip: the child inherits the environment unrestricted
OSpawnUnrestricted ==
    /\ opc = "spawn"
    /\ LET pid == run_counter
           gpu == gpu_list[loopv.g]
           log == LogKey(gpu, loopv.k)
       IN
       /\ child' = [child EXCEPT ![pid] =
              [st |-> "running", code |-> 0, visible |-> "",
               seed |-> loopv.run_seed, log |-> log, wrote |-> 0, term |-> FALSE]]
       /\ processes' = processes \cup {pid}
       /\ meta' = [meta EXCEPT ![pid] =
              [gpu |-> gpu, run_index |-> loopv.k, seed |-> loopv.run_seed, log |-> log]]
    /\ loopv' = [loopv EXCEPT !.k = @ + 1]
    /\ opc' = "launch"
    /\ UNCHANGED <<ofixed, ret, data_store, setup_calls, gpu_list, run_counter,
                   snapshot, last_sizes, rc, files, dirs, fwd, reports,
                   term_sent, kill_sent, elapsed, interrupts, stale>>

\* lines 116-119, 124-133: the child's environment, Popen, processes and meta
OSpawn ==
    /\ opc = "spawn"
    /\ LET pid == run_counter
           gpu == gpu_list[loopv.g]
           log == LogKey(gpu, loopv.k)
       IN
       /\ child' = [child EXCEPT ![pid] =
              [st |-> "running", code |-> 0, visible |-> gpu,
               seed |-> loopv.run_seed, log |-> log, wrote |-> 0, term |-> FALSE]]
       /\ processes' = processes \cup {pid}
       /\ meta' = [meta EXCEPT ![pid] =
              [gpu |-> gpu, run_index |-> loopv.k, seed |-> loopv.run_seed, log |-> log]]
    /\ loopv' = [loopv EXCEPT !.k = @ + 1]
    /\ opc' = "launch"
    /\ UNCHANGED <<ofixed, ret, data_store, setup_calls, gpu_list, run_counter,
                   snapshot, last_sizes, rc, files, dirs, fwd, reports,
                   term_sent, kill_sent, elapsed, interrupts, stale>>

\* a plausible slip: the no-tail flag is not looked at
OAfterLaunchMonitor ==
    /\ opc = "after_launch"
    /\ opc' = "mon_while"
    /\ last_sizes' = [p \in Pids |-> IF p \in processes THEN 0 ELSE last_sizes[p]]
    /\ UNCHANGED <<ofixed, ret, data_store, setup_calls, gpu_list, run_counter,
                   loopv, snapshot, processes, meta, child, rc, files, dirs,
                   fwd, reports, term_sent, kill_sent, elapsed, interrupts, stale>>

\* lines 135-140: no-tail mode returns 0; otherwise last_sizes starts at 0
OAfterLaunch ==
    /\ opc = "after_launch"
    /\ IF args.no_tail
       THEN opc' = "returned" /\ ret' = 0 /\ last_sizes' = last_sizes
       ELSE /\ opc' = "mon_while"
            /\ ret' = ret
            /\ last_sizes' = [p \in Pids |-> IF p \in processes THEN 0 ELSE last_sizes[p]]
    /\ UNCHANGED <<ofixed, data_store, setup_calls, gpu_list, run_counter,
                   loopv, snapshot, processes, meta, child, rc, files, dirs,
                   fwd, reports, term_sent, kill_sent, elapsed, interrupts, stale>>

\* lines 142, 144: while processes; for pid, proc in list(processes.items())
OMonWhile ==
    /\ opc = "mon_while"
    /\ IF processes = {}
       THEN opc' = "returned" /\ ret' = 0 /\ UNCHANGED <<snapshot, loopv>>
       ELSE /\ opc' = "mon_tail"
            /\ ret' = ret
            /\ snapshot' = Ordered(processes)
            /\ loopv' = [loopv EXCEPT !.m = 1]
    /\ UNCHANGED <<ofixed, data_store, setup_calls, gpu_list, run_counter,
                   processes, meta, last_sizes, child, rc, files, dirs, fwd,
                   reports, term_sent, kill_sent, elapsed, interrupts, stale>>

\* positions from + 1 .. to of a file, in file order
RECURSIVE Positions(_, _)
Positions(from, to) ==
    IF to <= from THEN <<>> ELSE Append(Positions(from, to - 1), to)

\* line 153: last_sizes[pid] = size
NewOffset(old, size) == size

\* lines 144-153: the next pid of the pass; forward what its log has grown by
OTail ==
    /\ opc = "mon_tail"
    /\ IF loopv.m > Len(snapshot)
       THEN /\ opc' = "mon_sleep"
            /\ UNCHANGED <<fwd, last_sizes, stale>>
       ELSE LET pid == snapshot[loopv.m]
                size == Len(files[meta[pid].log])
            IN
            /\ opc' = "mon_poll"
            /\ stale' = (stale \/ pid \notin processes)
            /\ IF size > last_sizes[pid]
               THEN /\ fwd' = [fwd EXCEPT ![pid] = @ \o Positions(last_sizes[pid], size)]
                    /\ last_sizes' = [last_sizes EXCEPT ![pid] = NewOffset(@, size)]
               ELSE UNCHANGED <<fwd, last_sizes>>
    /\ UNCHANGED <<ofixed, ret, data_store, setup_calls, gpu_list, run_counter,
                   loopv, snapshot, processes, meta, child, rc, files, dirs,
                   reports, term_sent, kill_sent, elapsed, interrupts>>

\* a plausible slip: the exit of one child empties the active set
PopAll(procs, pid) == {}

\* line 157: processes.pop(pid)
Pop(procs, pid) == procs \ {pid}

\* a plausible slip: proc.wait() in place of proc.poll()
OPollWait ==
    /\ opc = "mon_poll"
    /\ LET pid == snapshot[loopv.m] IN
       /\ child[pid].st = "exited"
       /\ stale' = (stale \/ pid \notin processes)
       /\ rc' = [rc EXCEPT ![pid] = <<child[pid].code>>]
       /\ reports' = Append(reports, [pid |-> pid, code |-> child[pid].code])
       /\ processes' = processes \ {pid}
    /\ loopv' = [loopv EXCEPT !.m = @ + 1]
    /\ opc' = "mon_tail"
    /\ UNCHANGED <<ofixed, ret, data_store, setup_calls, gpu_list, run_counter,
                   snapshot, meta, last_sizes, child, files, dirs, fwd,
                   term_sent, kill_sent, elapsed, interrupts>>

\* lines 154-157: proc.poll(); an exited child is reported and removed
OPoll ==
    /\ opc = "mon_poll"
    /\ LET pid == snapshot[loopv.m] IN
       /\ stale' = (stale \/ pid \notin processes)
       /\ IF child[pid].st = "exited"
          THEN /\ rc' = [rc EXCEPT ![pid] = <<child[pid].code>>]
               /\ reports' = Append(reports, [pid |-> pid, code |-> child[pid].code])
               /\ processes' = Pop(processes, pid)
          ELSE UNCHANGED <<rc, reports, processes>>
    /\ loopv' = [loopv EXCEPT !.m = @ + 1]
    /\ opc' = "mon_tail"
    /\ UNCHANGED <<ofixed, ret, data_store, setup_calls, gpu_list, run_counter,
                   snapshot, meta, last_sizes, child, files, dirs, fwd,
                   term_sent, kill_sent, elapsed, interrupts>>

\* lines 158-162: time.sleep(2) and the periodic summary line
OSleep ==
    /\ opc = "mon_sleep"
    /\ opc' = "mon_while"
    /\ UNCHANGED <<ofixed, ret, data_store, setup_calls, gpu_list, run_counter,
                   loopv, snapshot, processes, meta, last_sizes, child, rc,
                   files, dirs, fwd, reports, term_sent, kill_sent, elapsed,
                   interrupts, stale>>

\* positions of main() inside the try block (lines 141-162), in the
\* except handler (lines 163-174), and anywhere in main()
TryBlock == {"mon_while", "mon_tail", "mon_poll", "mon_sleep"}
Handler == {"h_terminate", "h_grace", "h_kill"}
InMain == {"ensure", "parse", "launch", "open_log", "write_header", "spawn",
           "after_launch"} \cup TryBlock \cup Handler

\* SIGINT: Python raises KeyboardInterrupt in main(); only lines 141-162 are
\* inside the try, anywhere else the exception leaves main()
OInterrupt ==
    /\ opc \in InMain
    /\ interrupts' = interrupts + 1
    /\ IF opc \in TryBlock
       THEN /\ opc' = "h_terminate"
            /\ loopv' = [loopv EXCEPT !.m = 1]
            /\ ret' = ret
       ELSE /\ opc' = "crashed"
            /\ ret' = 130
            /\ loopv' = loopv
    /\ elapsed' = 0
    /\ UNCHANGED <<ofixed, data_store, setup_calls, gpu_list, run_counter,
                   snapshot, processes, meta, last_sizes, child, rc, files,
                   dirs, fwd, reports, term_sent, kill_sent, stale>>

\* SIGTERM: main() installs no handler, the default action ends the process
OSigterm ==
    /\ opc \in InMain
    /\ opc' = "killed"
    /\ ret' = -15
    /\ elapsed' = 0
    /\ UNCHANGED <<ofixed, data_store, setup_calls, gpu_list, run_counter,
                   loopv, snapshot, processes, meta, last_sizes, child, rc,
                   files, dirs, fwd, reports, term_sent, kill_sent,
                   interrupts, stale>>

\* Popen.poll(): reaps an exited child and caches its return code
Poll(pid) == IF child[pid].st = "exited" THEN <<child[pid].code>> ELSE <<>>

\* lines 165-166: for pid, proc in processes.items(): proc.terminate()
\* line 168: t0 = time.time()
OTerminate ==
    /\ opc = "h_terminate"
    /\ IF loopv.m > Cardinality(processes)
       THEN /\ opc' = "h_grace"
            /\ elapsed' = 0
            /\ UNCHANGED <<loopv, term_sent, child, rc, stale>>
       ELSE LET pid == Ordered(processes)[loopv.m] IN
            /\ term_sent' = term_sent \cup {pid}
            /\ stale' = (stale \/ pid \notin processes)
            /\ rc' = [rc EXCEPT ![pid] = Poll(pid)]
            /\ child' = [child EXCEPT ![pid].term = (@ \/ child[pid].st = "running")]
            /\ loopv' = [loopv EXCEPT !.m = @ + 1]
            /\ UNCHANGED <<opc, elapsed>>
    /\ UNCHANGED <<ofixed, ret, data_store, setup_calls, gpu_list, run_counter,
                   snapshot, processes, meta, last_sizes, files, dirs, fwd,
                   reports, kill_sent, interrupts>>

AnyAlive == \E p \in processes : child[p].st = "running"

\* the handles any(p.poll() is None ...) polls: up to the first live one
PolledByAny ==
    {p \in processes : \A q \in processes : q < p => child[q].st # "running"}

\* a plausible slip: the deadline is one time unit short
GraceContinuesShort == AnyAlive /\ elapsed < GracePeriod - 1

\* line 169: any(p.poll() is None ...) and time.time() - t0 < 10
GraceContinues == AnyAlive /\ elapsed < GracePeriod

\* lines 169-170: the grace period; a time.sleep(0.5) moves the clock, read
\* in whole time units, by nothing or by up to MaxOvershoot
OGrace ==
    /\ opc = "h_grace"
    /\ rc' = [p \in Pids |-> IF p \in PolledByAny THEN Poll(p) ELSE rc[p]]
    /\ IF GraceContinues
       THEN /\ \E d \in 0..MaxOvershoot : elapsed' = elapsed + d
            /\ UNCHANGED <<opc, loopv>>
       ELSE /\ opc' = "h_kill"
            /\ loopv' = [loopv EXCEPT !.m = 1]
            /\ elapsed' = 0
    /\ UNCHANGED <<ofixed, ret, data_store, setup_calls, gpu_list, run_counter,
                   snapshot, processes, meta, last_sizes, child, files, dirs,
                   fwd, reports, term_sent, kill_sent, interrupts, stale>>

\* lines 171-175: kill what is still alive, print, return 0
OKill ==
    /\ opc = "h_kill"
    /\ IF loopv.m > Cardinality(processes)
       THEN /\ opc' = "returned"
            /\ ret' = 0
            /\ UNCHANGED <<loopv, kill_sent, child, rc, stale>>
       ELSE LET pid == Ordered(processes)[loopv.m] IN
            /\ stale' = (stale \/ pid \notin processes)
            /\ IF child[pid].st = "running"
               THEN /\ kill_sent' = kill_sent \cup {pid}
                    /\ child' = [child EXCEPT ![pid].st = "exited", ![pid].code = -9]
                    /\ rc' = rc
               ELSE /\ rc' = [rc EXCEPT ![pid] = Poll(pid)]
                    /\ UNCHANGED <<kill_sent, child>>
            /\ loopv' = [loopv EXCEPT !.m = @ + 1]
            /\ UNCHANGED <<opc, ret>>
    /\ UNCHANGED <<ofixed, data_store, setup_calls, gpu_list, run_counter,
                   snapshot, processes, meta, last_sizes, files, dirs, fwd,
                   reports, term_sent, elapsed, interrupts>>

(***************************************************************************)
(* The spawned processes (launch_remd_multiplex), as the orchestrator sees *)
(* them: they append to their log, and they exit, on their own or on a     *)
(* terminate request they choose to honour.                                *)
(***************************************************************************)
ChildWrite(c) ==
    /\ child[c].st = "running"
    /\ child[c].wrote < MaxLog
    /\ files' = [files EXCEPT ![child[c].log] =
                   Append(@, [by |-> "child", pid |-> c, n |-> child[c].wrote + 1])]
    /\ child' = [child EXCEPT ![c].wrote = @ + 1]
    /\ UNCHANGED <<ofixed, opc, ret, data_store, setup_calls, gpu_list,
                   run_counter, loopv, snapshot, processes, meta, last_sizes,
                   rc, dirs, fwd, reports, term_sent, kill_sent, elapsed,
                   interrupts, stale>>

ExitCodes(c) == IF child[c].term THEN {0, 1, -15} ELSE {0, 1}

ChildExit(c) ==
    /\ child[c].st = "running"
    /\ \E code \in ExitCodes(c) :
          child' = [child EXCEPT ![c].st = "exited", ![c].code = code]
    /\ UNCHANGED <<ofixed, opc, ret, data_store, setup_calls, gpu_list,
                   run_counter, loopv, snapshot, processes, meta, last_sizes,
                   rc, files, dirs, fwd, reports, term_sent, kill_sent,
                   elapsed, interrupts, stale>>

(***************************************************************************)
(* Initial states and specification of the orchestrator.                   *)
(***************************************************************************)
WorkersOff ==
    /\ WInitCommon
    /\ step = [w \in Workers |-> 0]
    /\ start = step
    /\ n_replicas = [w \in Workers |-> NumReplicas]
    /\ n_workers = [w \in Workers |-> NumWorkers]
    /\ enable_gamd = [w \in Workers |-> FALSE]
    /\ wpc = [w \in Workers |-> "idle"]
    /\ lpc = "off"
    /\ lstep = 0
    /\ replica_set = <<>>
    /\ matrix = <<>>

\* main() entered with any parsed arguments; device names are arbitrary, so
\* the first device named is called "0"
InitOrch ==
    /\ WorkersOff
    /\ LaunchOff
    /\ EnvOff
    /\ OrchInitCommon
    /\ opc = "ensure"
    /\ data_store \in BOOLEAN
    /\ \E n \in 1..MaxChildren, runs \in 0..MaxChildren, nt \in BOOLEAN :
          \E raw \in TokenLists(n) :
             /\ Len(ParseGpus(raw)) * runs <= MaxChildren
             /\ ParseGpus(raw) # <<>> => ParseGpus(raw)[1] = "0"
             /\ args = [gpus |-> raw, runs_per_gpu |-> runs, no_tail |-> nt]

NextOrch ==
    \/ OEnsure
    \/ OParse
    \/ OLaunchNext
    \/ OOpenLog
    \/ OWriteHeader
    \/ OSpawn
    \/ OAfterLaunch
    \/ OMonWhile
    \/ OTail
    \/ OPoll
    \/ OSleep
    \/ OInterrupt
    \/ OSigterm
    \/ OTerminate
    \/ OGrace
    \/ OKill
    \/ \E c \in Pids : ChildWrite(c)
    \/ \E c \in Pids : ChildExit(c)

SpecOrch == InitOrch /\ [][NextOrch]_vars

\* the statements of main() when no signal arrives
OMain ==
    \/ OEnsure
    \/ OParse
    \/ OLaunchNext
    \/ OOpenLog
    \/ OWriteHeader
    \/ OSpawn
    \/ OAfterLaunch
    \/ OMonWhile
    \/ OTail
    \/ OPoll
    \/ OSleep

NextQuiet ==
    \/ OMain
    \/ \E c \in Pids : ChildWrite(c)
    \/ \E c \in Pids : ChildExit(c)

\* a run that no signal disturbs: the orchestrator process keeps being
\* scheduled; nothing is assumed about when, or whether, a child exits
SpecQuiet == InitOrch /\ [][NextQuiet]_vars /\ WF_vars(OMain)

(***************************************************************************)
(* Properties of the worker loop.                                          *)
(***************************************************************************)
Range(seq) == {seq[j] : j \in 1..Len(seq)}

Count(seq, x) == Cardinality({j \in 1..Len(seq) : seq[j] = x})

CommOps == {"recv_states", "recv_alphas", "send_states", "recv_all", "send_energies"}
EngineOps == {"prepare", "minimize", "run", "prepare_energy", "get_energy"}

\* the place of an operation in the order of one iteration
Phase(op) ==
    CASE op = "recv_states" -> 1
      [] op = "recv_alphas" -> 2
      [] op \in {"assign", "prepare", "minimize", "run"} -> 3
      [] op = "send_states" -> 4
      [] op = "recv_all" -> 5
      [] op \in {"prepare_energy", "get_energy"} -> 6
      [] op = "send_energies" -> 7
      [] op = "hook" -> 8

\* the worker is inside an iteration of the while loop (or was, when it raised)
InIteration(w) == wpc[w] \notin {"idle", "check", "loop", "done"}

IterationOrdered(w) ==
    /\ \A j \in 1..(Len(ops[w]) - 1) : Phase(ops[w][j]) <= Phase(ops[w][j + 1])
    /\ \A op \in CommOps : Count(ops[w], op) <= 1
    /\ \A op \in Range(ops[w]) :
          \A q \in CommOps : Phase(q) < Phase(op) => q \in Range(ops[w])

\* C1: in every iteration of run the operations occur in the order
\* receive_states, receive_alphas, the prepare/advance calls, send_states,
\* receive_all_states, the energy evaluations, send_energies, and then the
\* step increment; each of the five communicator operations has been called
\* exactly once when the step is incremented, and no energy is evaluated
\* before the full replica set of the step was received.
C1_IterationOrder ==
    /\ [](\A w \in Workers : IterationOrdered(w))
    /\ [][\A w \in Workers :
            step'[w] # step[w] =>
               /\ step'[w] = step[w] + 1
               /\ \A op \in CommOps : Count(ops[w], op) = 1
               /\ ops[w][Len(ops[w])] \in {"send_energies", "hook"}]_vars

C1_Witness ==
    /\ wpc[1] = "inc"
    /\ {"minimize", "get_energy"} \subseteq Range(ops[1])

\* the worker has completed the full round of step n
RoundDone(v, n) ==
    \/ step[v] > n
    \/ /\ step[v] = n
       /\ InIteration(v)
       /\ {"send_states", "recv_all", "send_energies"} \subseteq Range(ops[v])

\* C2: in a group, no worker has made an engine call for step N+1 unless
\* every worker of the group has completed step N's round: sent its step-N
\* states, received the full replica set and sent its step-N energies.
C2_StepBarrier ==
    \A w \in Workers, v \in Workers :
       (InIteration(w) /\ Range(ops[w]) \cap EngineOps # {})
          => RoundDone(v, step[w] - 1)

C2_Witness ==
    \E w \in Workers, v \in Workers :
       /\ w # v
       /\ iter[w] = 2 /\ "run" \in Range(ops[w])
       /\ iter[v] = 1 /\ wpc[v] = "hook"

\* C3: when a received state list holds an element that is a list or has no
\* alpha attribute (and the bias factors were received), run raises an error
\* naming the first such index, TypeError for a list and AttributeError
\* otherwise, with no alpha assigned, no engine call made and nothing sent in
\* that step, and with the step counter unchanged.
C3_ShapeError ==
    \A w \in Workers :
       (InIteration(w) /\ "recv_states" \in Range(ops[w]) /\ FirstBad(states[w]) # 0)
          => /\ wpc[w] \in {"recv_alphas", "validate", "raised"}
             /\ Range(ops[w]) \subseteq {"recv_states", "recv_alphas"}
             /\ \A j \in 1..Len(states[w]) : states[w][j].alpha = 0
             /\ step[w] = start[w] + iter[w] - 1
             /\ (wpc[w] = "raised" /\ err[w].at # "recv_alphas") =>
                   /\ err[w].at = "validate"
                   /\ err[w].index = FirstBad(states[w]) - 1
                   /\ err[w].type = IF states[w][FirstBad(states[w])].kind = "list"
                                    THEN "TypeError" ELSE "AttributeError"

C3_Witness ==
    /\ wpc[1] = "raised"
    /\ err[1] = [type |-> "TypeError", index |-> 1, at |-> "validate"]
    /\ states[1][1].kind = "State"
    /\ iter[1] = 2

AfterForLoop == {"clear_minimize", "send_states", "recv_all", "energies",
                 "send_energies", "hook", "inc"}

\* C4: minimize_then_run is invoked only in the first iteration of a call of
\* run, whatever the start step, once for each owned state; in every later
\* iteration each owned state is advanced with run and never minimized.
C4_MinimizeOnce ==
    \A w \in Workers :
       InIteration(w) =>
          /\ "minimize" \in Range(ops[w]) => iter[w] = 1
          /\ "run" \in Range(ops[w]) => iter[w] >= 2
          /\ wpc[w] \in AfterForLoop =>
                /\ Count(ops[w], IF iter[w] = 1 THEN "minimize" ELSE "run")
                      = Len(states[w])
                /\ \A j \in 1..Len(states[w]) :
                      states[w][j].adv = IF iter[w] = 1 THEN "min" ELSE "run"

C4_Witness ==
    /\ start[1] > 0
    /\ iter[1] = 2
    /\ wpc[1] = "inc"
    /\ Count(ops[1], "run") = 2

(***************************************************************************)
(* Properties of the orchestrator.                                         *)
(***************************************************************************)
Spawned == {p \in Pids : child[p].st # "none"}

Running == {p \in Pids : child[p].st = "running"}

\* C5: after an interrupt during monitoring, terminate is requested for every
\* child of the active set before the wait starts; the wait ends only when
\* none of them is alive or GracePeriod time units have passed; kill then goes
\* to exactly the children found alive, never to one that was not sent
\* terminate; main returns only after that.
C5_InterruptShutdown ==
    /\ [](/\ kill_sent \subseteq term_sent
          /\ interrupts = 0 => term_sent = {}
          /\ (opc \in {"h_grace", "h_kill"} \/ (opc = "returned" /\ interrupts > 0))
                => processes \subseteq term_sent
          /\ (opc = "returned" /\ interrupts > 0) =>
                \A p \in processes :
                   /\ child[p].st = "exited"
                   /\ p \in kill_sent <=> child[p].code = -9)
    /\ [][/\ (opc = "h_grace" /\ opc' = "h_kill")
               => (~AnyAlive \/ elapsed >= GracePeriod)
          /\ term_sent' # term_sent => opc = "h_terminate"
          /\ \A p \in Pids :
                (p \in kill_sent' /\ p \notin kill_sent)
                   => (opc = "h_kill" /\ p \in processes /\ child[p].st = "running")
          /\ (opc = "h_kill" /\ loopv'.m = loopv.m + 1)
               => LET pid == Ordered(processes)[loopv.m]
                  IN child[pid].st = "running" => pid \in kill_sent']_vars

C5_Witness ==
    /\ opc = "returned"
    /\ interrupts = 1
    /\ \E p \in processes, q \in processes :
          /\ p \in kill_sent
          /\ q \notin kill_sent /\ child[q].code = -15

\* C6: in monitoring mode, when the orchestrator has stopped because of
\* SIGINT or SIGTERM, no spawned child is still running.
C6_NoChildAbandoned ==
    (/\ ~args.no_tail
     /\ \/ opc \in {"crashed", "killed"}
        \/ opc = "returned" /\ interrupts > 0)
       => Running = {}

\* C7: the seeds of the runs spawned by one launch are pairwise distinct.
C7_SeedsDistinct ==
    \A p \in Spawned, q \in Spawned : p # q => child[p].seed # child[q].seed

\* C8: once the launch loop is over, len(devices) * runsPerDevice children
\* were spawned, as many run directories exist, and no two children share a
\* run directory or log file.
C8_OneDirPerRun ==
    opc \in {"after_launch"} \cup TryBlock =>
       /\ Cardinality(Spawned) = Len(gpu_list) * args.runs_per_gpu
       /\ Cardinality(dirs) = Len(gpu_list) * args.runs_per_gpu
       /\ \A p \in Spawned, q \in Spawned : p # q => child[p].log # child[q].log

\* C9: an exited child, whatever its code, is reported once with that code
\* and it alone leaves the active set; the step sends no terminate or kill,
\* no handle outside the active set is polled, tailed or signalled, and
\* without an interrupt main returns only when every child has exited and
\* was reported.
C9_ExitIsolation ==
    /\ [](/\ ~stale
          /\ interrupts = 0 => (term_sent = {} /\ kill_sent = {})
          /\ \A i \in 1..Len(reports) :
                /\ reports[i].pid \notin processes
                /\ reports[i].code = child[reports[i].pid].code
                /\ \A j \in 1..Len(reports) : i # j => reports[i].pid # reports[j].pid
          /\ (opc = "returned" /\ ret = 0 /\ interrupts = 0 /\ ~args.no_tail) =>
                /\ processes = {}
                /\ Running = {}
                /\ Spawned = {reports[i].pid : i \in 1..Len(reports)})
    /\ [][(processes' # processes /\ opc # "spawn") =>
             \E pid \in processes :
                /\ processes' = processes \ {pid}
                /\ child[pid].st = "exited"
                /\ reports' = Append(reports, [pid |-> pid, code |-> child[pid].code])
                /\ UNCHANGED <<term_sent, kill_sent, child>>]_vars

C9_Witness ==
    /\ opc \in TryBlock
    /\ Len(reports) = 1
    /\ reports[1].code = 1
    /\ \E p \in processes : child[p].st = "running"

\* the times position k of log f was forwarded to the orchestrator's output
Forwards(f, k) ==
    Cardinality({x \in Pids \X (1..Len(files[f])) :
                   /\ meta[x[1]].log = f
                   /\ x[2] <= Len(fwd[x[1]])
                   /\ fwd[x[1]][x[2]] = k})

\* C10: for each run the read offset stays within the size of its log, what
\* was forwarded for it is the log up to that offset in file order, and every
\* byte of a log reaches the orchestrator's output at most once.
C10_TailOnce ==
    /\ \A p \in Pids :
          last_sizes[p] >= 0 =>
             /\ last_sizes[p] <= Len(files[meta[p].log])
             /\ fwd[p] = Positions(0, last_sizes[p])
    /\ \A f \in LogKeys : \A k \in 1..Len(files[f]) : Forwards(f, k) <= 1

\* C11: in monitoring mode without a signal, main returns only with an empty
\* active set; a pass over the handles never waits for a child (it ends with
\* every handle of the pass visited, whether or not the children exit); and
\* once every child has exited, whatever the codes, main returns 0.
C11_MonitorUntilAllExit ==
    /\ []((opc = "returned" /\ ~args.no_tail /\ gpu_list # <<>>) =>
             (ret = 0 /\ processes = {} /\ Running = {}))
    /\ [](opc = "mon_sleep" =>
             /\ loopv.m = Len(snapshot) + 1
             /\ processes \subseteq Range(snapshot))
    /\ []<>(opc \notin {"mon_tail", "mon_poll"})
    /\ (<>[](Running = {})) =>
          ((opc \in TryBlock) ~> (opc = "returned" /\ ret = 0 /\ processes = {}))

C11_Witness ==
    /\ opc = "returned"
    /\ ret = 0
    /\ ~args.no_tail
    /\ Len(reports) = 2
    /\ reports[1].code # reports[2].code

\* C12: with --no-tail main returns 0 once the launch loop has spawned all
\* len(gpu_list) * runs_per_gpu children, never enters the monitor loop or
\* the interrupt handler, and never polls, tails, terminates or kills a child.
C12_NoTailNoSupervision ==
    args.no_tail =>
       /\ opc \notin (TryBlock \cup Handler)
       /\ term_sent = {} /\ kill_sent = {}
       /\ reports = <<>>
       /\ ~stale
       /\ \A p \in Pids : fwd[p] = <<>> /\ last_sizes[p] = -1 /\ rc[p] = <<>>
       /\ (opc = "returned" /\ gpu_list # <<>>) =>
             /\ ret = 0
             /\ Cardinality(Spawned) = Len(gpu_list) * args.runs_per_gpu
             /\ processes = Spawned

C12_Witness ==
    /\ args.no_tail
    /\ opc = "returned"
    /\ ret = 0
    /\ Cardinality(Running) = 2

\* C13: ensure_datastore calls the setup at most once, and exactly once when
\* the data store is absent at start; when the setup raises or leaves no data
\* store the process exits with code 1 with no run directory and no child;
\* when the data store is present the setup is not called.
C13_EnsureDatastore ==
    /\ [](/\ Len(setup_calls) <= 1
          /\ opc = "exited" => (ret = 1 /\ Spawned = {} /\ dirs = {})
          /\ (setup_calls # <<>> /\ setup_calls[1] # "created") =>
                (opc = "exited" /\ ret = 1 /\ Spawned = {})
          /\ (~data_store /\ opc # "ensure") =>
                (ret \notin {-1, 0} /\ Spawned = {}))
    /\ [][(opc = "ensure" /\ opc' \notin {"ensure", "crashed", "killed"}) =>
             /\ data_store => (setup_calls' = <<>> /\ opc' = "parse")
             /\ ~data_store => Len(setup_calls') = 1]_vars

C13_Witness ==
    /\ opc = "exited"
    /\ setup_calls = <<"raised">>
    /\ data_store

\* C14: when every token of --gpus strips to nothing, main never gets past
\* the parse: it creates no run directory, spawns no child, and when it
\* returns the code is 2.
C14_EmptyDeviceList ==
    (\A i \in 1..Len(args.gpus) : args.gpus[i] = "") =>
       /\ dirs = {}
       /\ Spawned = {}
       /\ opc \in {"ensure", "parse", "returned", "exited", "crashed", "killed"}
       /\ opc = "returned" => ret = 2
       /\ ret # 0

C14_Witness ==
    /\ Len(args.gpus) = 2
    /\ \A i \in 1..Len(args.gpus) : args.gpus[i] = ""
    /\ opc = "returned"
    /\ ret = 2
    /\ args.runs_per_gpu > 0

\* the records main holds
Recorded == {p \in Pids : meta[p] # NoMeta}

\* C15: the p-th child is started with CUDA_VISIBLE_DEVICES set to the one
\* device of its (device, run index) pair; its record holds that device, that
\* run index, and the seed and log path the child was started with; there is
\* one record per spawned child, and after the launch loop that is
\* len(gpu_list) * runs_per_gpu records.
C15_RecordPerChild ==
    /\ Recorded = Spawned
    /\ Spawned = processes \cup {reports[i].pid : i \in 1..Len(reports)}
    /\ \A p \in Spawned :
          /\ child[p].visible = gpu_list[((p - 1) \div args.runs_per_gpu) + 1]
          /\ child[p].visible \in Devices
          /\ meta[p].gpu = child[p].visible
          /\ meta[p].run_index = (p - 1) % args.runs_per_gpu
          /\ meta[p].seed = child[p].seed
          /\ meta[p].log = child[p].log
          /\ meta[p].log = LogKey(meta[p].gpu, meta[p].run_index)
    /\ opc \in ({"after_launch"} \cup TryBlock) =>
          Cardinality(Recorded) = Len(gpu_list) * args.runs_per_gpu

C15_Witness ==
    /\ opc = "after_launch"
    /\ \E p \in Spawned, q \in Spawned :
          /\ child[p].visible = "0" /\ meta[p].gpu = "0"
          /\ child[q].visible = "1" /\ meta[q].gpu = "1"

\* the bytes child p has written are in its log, in order, after position 1
ChildBytesKept(p) ==
    LET f == files[child[p].log] IN
    \A n \in 1..child[p].wrote :
       \E j \in 2..Len(f) :
          /\ f[j] = [by |-> "child", pid |-> p, n |-> n]
          /\ n > 1 => \E i \in 2..(j - 1) : f[i] = [by |-> "child", pid |-> p, n |-> n - 1]

\* C16: when a child is about to be started its log holds exactly the header
\* line of its run; from then on the log of every spawned run starts with
\* that header line and holds, after it, every byte the child has written.
C16_HeaderThenChildOutput ==
    /\ opc = "spawn" =>
          files[LogKey(gpu_list[loopv.g], loopv.k)] =
             <<Header(gpu_list[loopv.g], loopv.k, loopv.run_seed)>>
    /\ \A p \in Spawned :
          LET f == files[child[p].log] IN
          /\ Len(f) >= 1
          /\ f[1] = Header(meta[p].gpu, meta[p].run_index, meta[p].seed)
          /\ ChildBytesKept(p)

(***************************************************************************)
(* launch_remd.main, run by every MPI rank; one action per block of        *)
(* statements.  All ranks see the same arguments, environment, config,     *)
(* files and PATH.                                                         *)
(***************************************************************************)
Launchers == {"launch_remd", "launch_remd_multiplex"}

\* the ranks mpirun started
World == {r \in Ranks : r < mcfg.size}

\* a plausible slip: a non-divisible replica count is let through
ConfigErrorLenient(n, m, allow) == IF m < 1 THEN 3 ELSE 0

\* lines 84-86, 94-101: the code main returns for a configuration error, 0 if
\* there is none
ConfigError(n, m, allow) ==
    IF m < 1 THEN 3
    ELSE IF m # 1 /\ n % m # 0 /\ ~allow THEN 4
    ELSE 0

\* a plausible slip: the partial block is dropped
FloorDiv(n, m) == n \div m

\* line 102: (n_replicas + replicas_per_rank - 1) // replicas_per_rank
CeilDiv(n, m) == (n + m - 1) \div m

\* a plausible slip: the multiplex factor is not applied
ExpectedRanksFlat(n, m) == n

\* lines 90-104: expected_ranks
ExpectedRanks(n, m) ==
    IF m = 1 THEN n
    ELSE IF n % m # 0 THEN CeilDiv(n, m)
    ELSE n \div m

\* a plausible slip: the first surplus rank is kept
IsIdleStrict(rank, size, expected) == size > expected /\ rank > expected

\* line 117: size > expected_ranks and rank >= expected_ranks
IsIdle(rank, size, expected) == size > expected /\ rank >= expected

\* a plausible slip: the standard launcher is preferred whenever it exists
SelectStandardFirst(wanted_multiplex, which) ==
    IF "launch_remd" \in which THEN "launch_remd"
    ELSE IF "launch_remd_multiplex" \in which THEN "launch_remd_multiplex"
    ELSE "none"

\* lines 123-133: the launcher chosen, "none" if PATH holds neither
Select(wanted_multiplex, which) ==
    IF wanted_multiplex /\ "launch_remd_multiplex" \in which THEN "launch_remd_multiplex"
    ELSE IF "launch_remd" \in which THEN "launch_remd"
    ELSE IF "launch_remd_multiplex" \in which THEN "launch_remd_multiplex"
    ELSE "none"

\* the replica indices the mapper hands to a rank: consecutive blocks of m
Owned(rank, n, m) == {i \in 0..(n - 1) : i \div m = rank}

\* lines 71-82: arguments, rank and size, config, the data store check
MStart(r) ==
    /\ mpc[r] = "start"
    /\ IF ~mcfg.store
       THEN /\ mpc' = [mpc EXCEPT ![r] = "returned"]
            /\ mret' = [mret EXCEPT ![r] = 1]
            /\ mlog' = [mlog EXCEPT ![r] = Append(@, "error_store")]
            /\ total' = total
       ELSE /\ mpc' = [mpc EXCEPT ![r] = "validate"]
            /\ mret' = mret
            /\ IF mcfg.cfg_n = <<>>
               THEN /\ total' = [total EXCEPT ![r] = mcfg.size]
                    /\ mlog' = [mlog EXCEPT ![r] = Append(@, "warning_n_replicas")]
               ELSE /\ total' = [total EXCEPT ![r] = mcfg.cfg_n[1]]
                    /\ mlog' = mlog
    /\ UNCHANGED <<wvars, lvars, ovars, evars, mcfg, expected_ranks, chosen, hints>>

\* lines 84-104: the factor and divisibility checks, expected_ranks
MValidate(r) ==
    /\ mpc[r] = "validate"
    /\ LET code == ConfigError(total[r], mcfg.multiplex_factor, mcfg.allow_partial) IN
       IF code # 0
       THEN /\ mpc' = [mpc EXCEPT ![r] = "returned"]
            /\ mret' = [mret EXCEPT ![r] = code]
            /\ mlog' = [mlog EXCEPT ![r] = Append(@, "error_config")]
            /\ expected_ranks' = expected_ranks
       ELSE /\ mpc' = [mpc EXCEPT ![r] = "idle_check"]
            /\ expected_ranks' = [expected_ranks EXCEPT ![r] =
                                     ExpectedRanks(total[r], mcfg.multiplex_factor)]
            /\ UNCHANGED <<mret, mlog>>
    /\ UNCHANGED <<wvars, lvars, ovars, evars, mcfg, total, chosen, hints>>

\* a plausible slip: the size mismatch is not reported
ConfigLinesNoWarning(r) == IF r # 0 THEN <<>> ELSE <<"config">>

\* what lines 106-115 print: rank 0 alone prints the configuration, and a
\* warning when the world size is not expected_ranks
ConfigLines(r) ==
    IF r # 0 THEN <<>>
    ELSE IF mcfg.size # expected_ranks[r] THEN <<"config", "warning_size">>
    ELSE <<"config">>

\* lines 106-119: the configuration line, and the early exit of a rank that
\* is not needed
MIdleCheck(r) ==
    /\ mpc[r] = "idle_check"
    /\ IF IsIdle(r, mcfg.size, expected_ranks[r])
       THEN /\ mpc' = [mpc EXCEPT ![r] = "returned"]
            /\ mret' = [mret EXCEPT ![r] = 0]
            /\ mlog' = [mlog EXCEPT ![r] = @ \o ConfigLines(r) \o <<"exiting_early">>]
       ELSE /\ mpc' = [mpc EXCEPT ![r] = "select"]
            /\ mret' = mret
            /\ mlog' = [mlog EXCEPT ![r] = @ \o ConfigLines(r)]
    /\ UNCHANGED <<wvars, lvars, ovars, evars, mcfg, total, expected_ranks, chosen, hints>>

\* lines 121-137: the launcher to exec, or code 2 when PATH holds none
MSelect(r) ==
    /\ mpc[r] = "select"
    /\ LET c == Select(mcfg.multiplex_factor > 1, mcfg.which) IN
       /\ chosen' = [chosen EXCEPT ![r] = c]
       /\ IF c = "none"
          THEN /\ mpc' = [mpc EXCEPT ![r] = "returned"]
               /\ mret' = [mret EXCEPT ![r] = 2]
               /\ mlog' = [mlog EXCEPT ![r] = Append(@, "error_launcher")]
          ELSE /\ mpc' = [mpc EXCEPT ![r] = "exec"]
               /\ UNCHANGED <<mret, mlog>>
    /\ UNCHANGED <<wvars, lvars, ovars, evars, mcfg, total, expected_ranks, hints>>

\* lines 139-147: the mode line of rank 0, the hint variables (setdefault
\* keeps a value the environment already has), os.execvp
MExec(r) ==
    /\ mpc[r] = "exec"
    /\ mlog' = [mlog EXCEPT ![r] = IF r = 0 THEN Append(@, "mode") ELSE @]
    /\ hints' = [hints EXCEPT ![r] =
                    IF mcfg.preset # <<>> THEN mcfg.preset
                    ELSE <<mcfg.multiplex_factor, total[r]>>]
    /\ mpc' = [mpc EXCEPT ![r] = "execed"]
    /\ UNCHANGED <<wvars, lvars, ovars, evars, mcfg, mret, total, expected_ranks, chosen>>

LaunchStep(r) ==
    \/ MStart(r)
    \/ MValidate(r)
    \/ MIdleCheck(r)
    \/ MSelect(r)
    \/ MExec(r)

\* mpirun has started size ranks on one configuration
InitLaunch ==
    /\ WorkersOff
    /\ OrchOff
    /\ EnvOff
    /\ \E size \in 1..MaxWorld, n \in {<<>>} \cup {<<k>> : k \in 0..MaxReplicas},
          m \in 0..MaxFactor, allow \in BOOLEAN, store \in BOOLEAN,
          which \in SUBSET Launchers, preset \in {<<>>, <<1, 1>>} :
          mcfg = [size |-> size, cfg_n |-> n, multiplex_factor |-> m,
                  allow_partial |-> allow, store |-> store, which |-> which,
                  preset |-> preset]
    /\ mpc = [r \in Ranks |-> IF r < mcfg.size THEN "start" ELSE "off"]
    /\ mret = [r \in Ranks |-> -1]
    /\ total = [r \in Ranks |-> 0]
    /\ expected_ranks = [r \in Ranks |-> 0]
    /\ chosen = [r \in Ranks |-> "none"]
    /\ hints = [r \in Ranks |-> <<>>]
    /\ mlog = [r \in Ranks |-> <<>>]

NextLaunch == \E r \in Ranks : LaunchStep(r)

SpecLaunch == InitLaunch /\ [][NextLaunch]_vars

(***************************************************************************)
(* Properties of the launcher.                                             *)
(***************************************************************************)
\* the replica count main works with: cfg.n_replicas, or the world size
EffectiveReplicas == IF mcfg.cfg_n = <<>> THEN mcfg.size ELSE mcfg.cfg_n[1]

\* rank r has passed the validation of lines 84-104
Validated(r) ==
    \/ mpc[r] \in {"idle_check", "select", "exec", "execed"}
    \/ mpc[r] = "returned" /\ mret[r] \in {0, 2}

\* rank r has passed the early exit of lines 117-119, or has taken it
Decided(r) ==
    \/ mpc[r] \in {"select", "exec", "execed"}
    \/ mpc[r] = "returned" /\ mret[r] \in {0, 2}

ExitedEarly(r) == "exiting_early" \in Range(mlog[r])

RECURSIVE SumOwned(_, _, _)
SumOwned(k, n, m) ==
    IF k = 0 THEN 0
    ELSE SumOwned(k - 1, n, m) + Cardinality(Owned(k - 1, n, m))

\* C17: when the multiplex factor divides the replica count, expected_ranks
\* is their exact quotient and each rank below it owns exactly
\* multiplex_factor replicas; with factor 1 and a world of n_replicas ranks no
\* rank exits early and rank r is assigned replica r alone.
C17_ExactMapping ==
    \A r \in World :
       LET n == total[r]
           m == mcfg.multiplex_factor
       IN (Validated(r) /\ n % m = 0) =>
             /\ expected_ranks[r] * m = n
             /\ \A q \in 0..(expected_ranks[r] - 1) : Cardinality(Owned(q, n, m)) = m
             /\ (m = 1 /\ mcfg.size = n) =>
                   /\ ~ExitedEarly(r)
                   /\ Decided(r) => mpc[r] # "returned" \/ mret[r] = 2
                   /\ Owned(r, n, m) = {r}

C17_Witness ==
    \E r \in World :
       /\ mpc[r] = "execed"
       /\ mcfg.multiplex_factor = 2
       /\ total[r] = 4
       /\ expected_ranks[r] = 2
       /\ Owned(r, total[r], 2) = {2 * r, 2 * r + 1}

\* C18: when the factor does not divide the replica count and --allow-partial
\* is given, expected_ranks is the quotient rounded up, every rank below it
\* owns between 1 and multiplex_factor replicas, all but the last exactly
\* multiplex_factor, and the owned counts add up to the replica count.
C18_PartialMapping ==
    \A r \in World :
       LET n == total[r]
           m == mcfg.multiplex_factor
           e == expected_ranks[r]
       IN (Validated(r) /\ n % m # 0 /\ mcfg.allow_partial) =>
             /\ (e - 1) * m < n /\ n < e * m
             /\ \A q \in 0..(e - 2) : Cardinality(Owned(q, n, m)) = m
             /\ Cardinality(Owned(e - 1, n, m)) \in 1..(m - 1)
             /\ SumOwned(e, n, m) = n

C18_Witness ==
    \E r \in World :
       /\ mpc[r] = "execed"
       /\ mcfg.allow_partial
       /\ mcfg.multiplex_factor = 2
       /\ total[r] = 3
       /\ expected_ranks[r] = 2
       /\ Cardinality(Owned(1, 3, 2)) = 1

\* C19: with a multiplex factor below 1, or a factor above 1 that does not
\* divide the replica count without --allow-partial, no rank gets past the
\* validation: none chooses or execs a launcher or exports a hint, and a rank
\* that has returned did so with a non-zero code.
C19_ConfigErrorFatal ==
    LET n == EffectiveReplicas
        m == mcfg.multiplex_factor
        bad == IF m < 1 THEN TRUE ELSE (m > 1 /\ n % m # 0 /\ ~mcfg.allow_partial)
    IN bad =>
          \A r \in World :
             /\ mpc[r] \in {"start", "validate", "returned"}
             /\ mpc[r] = "returned" => mret[r] \in {1, 3, 4}
             /\ chosen[r] = "none"
             /\ hints[r] = <<>>
             /\ ~ExitedEarly(r)

C19_Witness ==
    /\ mcfg.size = 2
    /\ mcfg.multiplex_factor = 2
    /\ EffectiveReplicas = 3
    /\ \A r \in World : mpc[r] = "returned" /\ mret[r] = 4

C21_SmallWorldProceeds ==
    \A r \in World :
       (Decided(r) /\ mcfg.size < expected_ranks[r]) =>
          /\ ~ExitedEarly(r)
          /\ mpc[r] = "returned" => (mret[r] = 2 /\ mcfg.which = {})
          /\ mcfg.which # {} => mpc[r] \in {"select", "exec", "execed"}
          /\ r = 0 => "warning_size" \in Range(mlog[r])

C21_Witness ==
    /\ mcfg.size = 2
    /\ expected_ranks[0] = 4 /\ expected_ranks[1] = 4
    /\ mpc[0] = "execed" /\ mpc[1] = "execed"
    /\ "warning_size" \in Range(mlog[0])

(***************************************************************************)
(* The worker against a peer that sends state and bias-factor lists of     *)
(* any lengths, not only index-aligned ones.                               *)
(***************************************************************************)
NextWorkerAny == WorkerStep(1) \/ MockDeliver(1, TRUE) \/ MockCollect(1)

SpecWorkerAny == InitWorker /\ [][NextWorkerAny]_vars

(***************************************************************************)
(* Properties of the worker loop: length, energies, hook and errors.       *)
(***************************************************************************)
Max(a, b) == IF a >= b THEN a ELSE b

\* C22: run started with step s and max_steps M, when nothing fails, makes
\* exactly max(0, M - s + 1) iterations, adds exactly 1 to the step counter
\* per iteration and returns with step = max(s, M + 1); when s > M it returns
\* without any communicator operation and without any engine call.
C22_IterationCount ==
    \A w \in Workers :
       /\ (InIteration(w) /\ iter[w] > 0) => step[w] = start[w] + iter[w] - 1
       /\ wpc[w] \in {"loop", "done"} => step[w] = start[w] + iter[w]
       /\ wpc[w] = "done" =>
             /\ iter[w] = Max(0, max_steps[w] - start[w] + 1)
             /\ step[w] = Max(start[w], max_steps[w] + 1)
             /\ start[w] > max_steps[w] =>
                   /\ ops[w] = <<>>
                   /\ prepared[w] = NoCtx
                   /\ states[w] = <<>> /\ alphas[w] = <<>> /\ all_states[w] = <<>>
                   /\ up[w] = <<>>

C22_Witness ==
    /\ wpc[1] = "done"
    /\ start[1] = 0
    /\ iter[1] = MaxSteps + 1
    /\ step[1] = MaxSteps + 1

\* the energy message of the current step, from its sending to the increment
EnergiesSent(w) ==
    IF wpc[w] \in {"hook", "inc"}
    THEN {k \in 1..Len(up[w]) : up[w][k].tag = "energies"}
    ELSE {}

\* C23: the energy matrix sent in a step has one row per owned state and one
\* column per state of the full set received in that step; entry [h][r] is
\* the engine's energy of full-set state r, taken after the engine was
\* prepared with r, the bias factor assigned to owned state h in that step,
\* and the step's number.
C23_EnergyMatrix ==
    \A w \in Workers : \A k \in EnergiesSent(w) :
       LET e == up[w][k].body IN
       /\ Len(e) = Len(states[w])
       /\ \A h \in 1..Len(e) :
             /\ Len(e[h]) = Len(all_states[w])
             /\ \A r \in 1..Len(e[h]) :
                   e[h][r] = [cfg |-> all_states[w][r].id,
                              alpha |-> alphas[w][h],
                              step |-> step[w]]

C23_Witness ==
    /\ wpc[1] = "hook"
    /\ EnergiesSent(1) # {}
    /\ Len(states[1]) = 2
    /\ alphas[1][1] # alphas[1][2]
    /\ Len(all_states[1]) >= 2
    /\ step[1] = 1

\* the hook was called in the current iteration, after send_energies, with
\* the step of the iteration and the worker role
HookCallInPlace(w) ==
    /\ enable_gamd[w]
    /\ hook[w].leader = FALSE
    /\ hook[w].step = IF wpc[w] \in {"loop", "done"} THEN step[w] - 1 ELSE step[w]
    /\ Count(ops[w], "hook") = 1
    /\ ops[w][Len(ops[w])] = "hook"
    /\ ops[w][Len(ops[w]) - 1] = "send_energies"

\* C24: when adaptation is enabled and the threshold hook raises, the step
\* still completes: the step counter is incremented and the loop goes on with
\* the next step; the hook is called only after send_energies of the step,
\* with the current step and the worker role, and never when adaptation is
\* disabled.
C24_HookFailureTolerated ==
    /\ [](\A w \in Workers :
            /\ hook[w].outcome # "none" => HookCallInPlace(w)
            /\ "hook" \in Range(ops[w]) => hook[w].outcome # "none"
            /\ ~enable_gamd[w] => (hook[w] = NoHook /\ "hook" \notin Range(ops[w]))
            /\ hook[w].outcome = "failed" =>
                  /\ wpc[w] \in {"inc", "loop", "done"}
                  /\ err[w] = NoErr
                  /\ wpc[w] = "done" => step[w] > max_steps[w])
    /\ [][\A w \in Workers :
            (hook[w].outcome = "failed" /\ wpc'[w] # wpc[w]) =>
               \/ wpc[w] = "inc" /\ wpc'[w] = "loop" /\ step'[w] = step[w] + 1
               \/ /\ wpc[w] = "loop"
                  /\ wpc'[w] = IF step[w] <= max_steps[w] THEN "recv_states"
                                                           ELSE "done"]_vars

C24_Witness ==
    /\ enable_gamd[1]
    /\ hook[1] = [outcome |-> "failed", step |-> 0, leader |-> FALSE]
    /\ wpc[1] = "loop"
    /\ step[1] = 1
    /\ step[1] <= max_steps[1]

\* what run() has done so far, as seen from outside
Footprint(w) == <<ops[w], step[w], up[w], prepared[w], states[w], energies[w],
                  wpc[w], err[w]>>

\* the operation that raised is the last one made, and was made once
RaisedAtLastOp(w) ==
    CASE err[w].type = "CommError" ->
            /\ err[w].at \in CommOps
            /\ ops[w][Len(ops[w])] = err[w].at
            /\ Count(ops[w], err[w].at) = 1
      [] err[w].at = "validate" ->
            /\ FirstBad(states[w]) # 0
            /\ ops[w] = <<"recv_states", "recv_alphas">>
      [] err[w].at = "assign" ->
            /\ ops[w][Len(ops[w])] = "assign"
            /\ Range(ops[w]) \cap {"send_states", "recv_all", "send_energies"} = {}
      [] OTHER -> FALSE

\* C25: when a communicator operation fails during an iteration, or a shape
\* error is raised, run ends with that error: the failed operation is not
\* tried again, no later communicator or engine operation is made in that
\* run, and the step counter keeps the value of the failed step.
C25_FatalErrors ==
    /\ [](\A w \in Workers :
            (wpc[w] = "raised" /\ err[w].at # "check") =>
               /\ err[w].type \in {"CommError", "TypeError", "AttributeError"}
               /\ RaisedAtLastOp(w)
               /\ step[w] = start[w] + iter[w] - 1)
    /\ [][\A w \in Workers :
            /\ wpc[w] = "raised" => Footprint(w)' = Footprint(w)
            /\ (down[w] # <<>> /\ Head(down[w]).tag = "fail"
                  /\ Len(down'[w]) < Len(down[w])) =>
                  (wpc'[w] = "raised" /\ err'[w].type = "CommError")
            /\ (wpc[w] = "validate" /\ FirstBad(states[w]) # 0 /\ wpc'[w] # wpc[w]) =>
                  wpc'[w] = "raised"]_vars

C25_Witness ==
    /\ wpc[1] = "raised"
    /\ err[1] = [type |-> "CommError", index |-> -1, at |-> "recv_all"]
    /\ iter[1] = 2
    /\ start[1] = 1
    /\ step[1] = 2
    /\ "run" \in Range(ops[1])

(***************************************************************************)
(* MeldEnv (meld_env.py): the episode bookkeeping of the environment.      *)
(* RMSD values and actions are in tenths; the energy, the exchange rate    *)
(* and the reward are real numbers that no branch depends on and are left  *)
(* out of the records.                                                     *)
(***************************************************************************)
ActionLow == 1       \* action_space low = 0.1
ActionHigh == 20     \* action_space high = 2.0
RmsdStart == 25      \* the mock simulation starts at rmsd 2.5
RmsdFloor == 5       \* max(0.5, ...) in _run_simulation_block
RmsdTarget == 8      \* terminated when rmsd < 0.8
RmsdFailed == 100    \* terminated when rmsd > 10.0

EnvActions == {ActionLow, ActionHigh}

\* the rmsd values one block can produce from the normal draw, after the floor
RmsdDraws == {RmsdFloor, RmsdStart, RmsdFailed + 10}

efixed == <<wvars, lvars, ovars, mvars>>

\* lines 189-207: _init_simulation
InitSimulation == [step_count |-> 0, rmsd |-> RmsdStart, bias_multiplier |-> <<>>]

\* lines 209-229: _apply_action
ApplyAction(sim, action) ==
    IF sim = <<>> THEN sim
    ELSE <<[sim[1] EXCEPT !.bias_multiplier = <<action>>]>>

\* lines 231-258: _run_simulation_block, with draw the rmsd the random change
\* leads to
RunSimulationBlock(sim, draw) ==
    IF sim = <<>> THEN sim
    ELSE <<[sim[1] EXCEPT !.step_count = @ + EnvBlockSize,
                          !.rmsd = Max(RmsdFloor, draw)]>>

\* lines 260-276: _get_observation (the rmsd component)
GetObservation(sim) == IF sim = <<>> THEN 0 ELSE sim[1].rmsd

\* lines 311-332: _check_terminated
CheckTerminated(obs) == obs < RmsdTarget \/ obs > RmsdFailed

\* lines 334-342: _check_truncated
CheckTruncated(cur) == cur >= MaxEpisodeSteps

\* lines 87-115: reset; _cleanup_simulation drops the old simulation and
\* directory, then a new directory and simulation are made, the counters are
\* zeroed and the episode data emptied (also by reset_metrics, lines 379-381)
EnvReset ==
    /\ UNCHANGED efixed
    /\ Len(calls) < MaxEnvCalls
    /\ temp_dir' = <<"episode">>
    /\ simulation' = <<InitSimulation>>
    /\ current_step' = 0
    /\ total_steps' = 0
    /\ episode_data' = <<>>
    /\ calls' = Append(calls, "reset")
    /\ got' = got

\* a plausible slip: the record is appended before the counter is advanced
EnvStepRecordsFirst ==
    /\ UNCHANGED efixed
    /\ Len(calls) < MaxEnvCalls
    /\ \E action \in EnvActions, draw \in RmsdDraws :
          LET sim == RunSimulationBlock(ApplyAction(simulation, action), draw)
              obs == GetObservation(sim)
          IN
          /\ simulation' = sim
          /\ current_step' = current_step + 1
          /\ total_steps' = total_steps + EnvBlockSize
          /\ episode_data' = Append(episode_data,
                 [step |-> current_step, action |-> action, observation |-> obs,
                  terminated |-> CheckTerminated(obs),
                  truncated |-> CheckTruncated(current_step')])
    /\ calls' = Append(calls, "step")
    /\ UNCHANGED <<temp_dir, got>>

\* lines 117-159: step; it runs whether or not a simulation exists and
\* whether or not the episode already ended
EnvStep ==
    /\ UNCHANGED efixed
    /\ Len(calls) < MaxEnvCalls
    /\ \E action \in EnvActions, draw \in RmsdDraws :
          LET sim == RunSimulationBlock(ApplyAction(simulation, action), draw)
              obs == GetObservation(sim)
          IN
          /\ simulation' = sim
          /\ current_step' = current_step + 1
          /\ total_steps' = total_steps + EnvBlockSize
          /\ episode_data' = Append(episode_data,
                 [step |-> current_step', action |-> action, observation |-> obs,
                  terminated |-> CheckTerminated(obs),
                  truncated |-> CheckTruncated(current_step')])
    /\ calls' = Append(calls, "step")
    /\ UNCHANGED <<temp_dir, got>>

\* lines 176-178 and 363-377: close, through _cleanup_simulation
EnvClose ==
    /\ UNCHANGED efixed
    /\ Len(calls) < MaxEnvCalls
    /\ simulation' = <<>>
    /\ temp_dir' = <<>>
    /\ calls' = Append(calls, "close")
    /\ UNCHANGED <<current_step, total_steps, episode_data, got>>

\* lines 383-385: get_episode_data returns a copy of the list
EnvGetEpisodeData ==
    /\ UNCHANGED efixed
    /\ Len(calls) < MaxEnvCalls
    /\ got' = episode_data
    /\ calls' = Append(calls, "get_episode_data")
    /\ UNCHANGED <<simulation, current_step, total_steps, episode_data, temp_dir>>

InitEnv ==
    /\ WorkersOff
    /\ OrchOff
    /\ LaunchOff
    /\ EnvConstructed
    /\ got = <<>>
    /\ calls = <<>>

NextEnv == EnvReset \/ EnvStep \/ EnvClose \/ EnvGetEpisodeData

SpecEnv == InitEnv /\ [][NextEnv]_vars

\* position of the last reset among the calls, 0 if there was none
LastReset ==
    IF \E j \in 1..Len(calls) : calls[j] = "reset"
    THEN CHOOSE j \in 1..Len(calls) :
            calls[j] = "reset" /\ \A k \in (j + 1)..Len(calls) : calls[k] # "reset"
    ELSE 0

\* number of step calls since the last reset
StepsSinceReset ==
    Cardinality({j \in (LastReset + 1)..Len(calls) : calls[j] = "step"})

\* C26: after reset followed by k calls of step, get_episode_data returns
\* exactly k records whose step fields are 1..k in order; a reset at any
\* point empties the episode data and sets both step counters back to 0.
C26_EpisodeData ==
    /\ (calls # <<>> /\ calls[Len(calls)] = "get_episode_data" /\ LastReset > 0) =>
          /\ Len(got) = StepsSinceReset
          /\ \A j \in 1..Len(got) : got[j].step = j
    /\ (calls # <<>> /\ calls[Len(calls)] = "reset") =>
          /\ episode_data = <<>>
          /\ current_step = 0
          /\ total_steps = 0

C26_Witness ==
    /\ calls = <<"step", "reset", "step", "step", "get_episode_data">>
    /\ Len(got) = 2
    /\ got[2].step = 2

\* the states message of the current step, until the full set is received
StatesSent(w) ==
    IF wpc[w] = "recv_all"
    THEN {k \in 1..Len(up[w]) : up[w][k].tag = "states"}
    ELSE {}

\* C27: in every iteration, for any lengths of the received state and
\* bias-factor lists, every state passed to send_states_to_leader is what the
\* engine returned from advancing the received state of the same slot in that
\* iteration, after the state was assigned its received bias factor and the
\* engine was prepared with it; no received state goes back without having
\* been assigned, prepared and advanced exactly once.
C27_EveryStateAdvanced ==
    \A w \in Workers : \A k \in StatesSent(w) :
       LET b == up[w][k].body IN
       /\ Count(ops[w], "assign") = Len(b)
       /\ Count(ops[w], "prepare") = Len(b)
       /\ Count(ops[w], "minimize") + Count(ops[w], "run") = Len(b)
       /\ \A j \in 1..Len(b) :
             /\ j <= Len(alphas[w])
             /\ b[j].alpha = alphas[w][j]
             /\ b[j].adv = IF iter[w] = 1 THEN "min" ELSE "run"
             /\ b[j].ctx = <<b[j].id, alphas[w][j], step[w]>>

\* C28: run raises ValueError before any communicator operation and before
\* any engine call whenever the replica count is not divisible by the worker
\* count, for every start step, also one beyond max_steps; such a
\* combination never runs a single step.
C28_DivisibilityFirst ==
    \A w \in Workers :
       (wpc[w] \notin {"idle", "check"} /\ n_replicas[w] % n_workers[w] # 0) =>
          /\ wpc[w] = "raised"
          /\ err[w] = [type |-> "ValueError", index |-> -1, at |-> "check"]
          /\ ops[w] = <<>>
          /\ iter[w] = 0
          /\ step[w] = start[w]
          /\ up[w] = <<>> /\ down[w] = <<>>
          /\ prepared[w] = NoCtx
          /\ states[w] = <<>> /\ all_states[w] = <<>> /\ energies[w] = <<>>

C28_Witness ==
    /\ wpc[1] = "raised"
    /\ err[1].type = "ValueError"
    /\ n_replicas[1] % n_workers[1] # 0
    /\ start[1] = MaxSteps + 1
    /\ step[1] > max_steps[1]

(***************************************************************************)
(* Properties of the orchestrator's tailing at child exit.                 *)
(***************************************************************************)
\* the children the monitoring loop has removed from the active set
Removed ==
    {p \in Pids : meta[p] # NoMeta /\ p \notin processes /\ rc[p] # <<>>}

Selected(r) ==
    \/ mpc[r] \in {"exec", "execed"}
    \/ mpc[r] = "returned" /\ mret[r] = 2

\* C30: an active rank selects the multiplex launcher when the factor is
\* above 1 and that launcher is available, else the standard launcher when
\* available, else the multiplex launcher when available, else main returns 2
\* without exec; a factor above 1 leads to the standard launcher only when
\* the multiplex launcher is unavailable; a rank execs exactly one launcher.
C30_LauncherPriority ==
    /\ [](\A r \in World :
            Selected(r) =>
               LET mux == "launch_remd_multiplex" \in mcfg.which
                   std == "launch_remd" \in mcfg.which
                   many == mcfg.multiplex_factor > 1
               IN
               /\ (many /\ mux) => chosen[r] = "launch_remd_multiplex"
               /\ (~(many /\ mux) /\ std) => chosen[r] = "launch_remd"
               /\ (~std /\ mux) => chosen[r] = "launch_remd_multiplex"
               /\ (~std /\ ~mux) =>
                     /\ chosen[r] = "none"
                     /\ mpc[r] = "returned" /\ mret[r] = 2
                     /\ hints[r] = <<>>
               /\ (many /\ chosen[r] = "launch_remd") => ~mux
               /\ mpc[r] = "returned" <=> chosen[r] = "none"
               /\ ~ExitedEarly(r))
    /\ [][\A r \in World :
            /\ mpc[r] = "execed" => (mpc'[r] = "execed" /\ chosen'[r] = chosen[r])
            /\ (mpc'[r] = "execed" /\ mpc[r] # "execed") =>
                  (mpc[r] = "exec" /\ chosen[r] \in Launchers)]_vars

C30_Witness ==
    /\ mcfg.multiplex_factor = 2
    /\ mcfg.which = Launchers
    /\ mcfg.size = 2
    /\ mpc[0] = "execed" /\ mpc[1] = "execed"
    /\ chosen[0] = "launch_remd_multiplex" /\ chosen[1] = "launch_remd_multiplex"

====
